---- MODULE Spec2Model ----
(***************************************************************************)
(* Workload deployment orchestrator of copilot-cli (package cli/deploy).   *)
(*                                                                         *)
(* The model follows lbSvcDeployer.DeployWorkload as it is exercised by    *)
(* TestWorkloadDeployer_DeployWorkload: a deployer is constructed with a   *)
(* manifest, an application and an environment; every DeployWorkload call  *)
(* brings its own Options.  Collaborators (endpoint getter, version        *)
(* getter, certificate validator, CIDR getter, service deployer, force     *)
(* updater, spinner, clock) are mocks whose results are chosen freely.     *)
(*                                                                         *)
(* Strings that the code inspects character by character (aliases, domain  *)
(* names) are sequences of one-character strings.  Errors are the chain of *)
(* messages from the outermost wrapper to the cause; <<>> is nil.          *)
(***************************************************************************)
EXTENDS Integers, Sequences, FiniteSets, TLC

VARIABLES
    lbMft,          \* manifest of the deployer: [aliases, nlbPort, nlbAliases]
    app,            \* application: [Name, Domain]
    env,            \* environment: [Name, ImportCertARNs]
    stackUpToDate,  \* backend: the deployed stack already equals the rendered configuration
    pc,             \* position inside DeployWorkload
    opts,           \* Options of the running call
    calls,          \* collaborator calls of the running call, in order
    err,            \* error the running call returns
    cmdRunAt,       \* value read from the injected clock
    submitted,      \* what DeployService answered
    lastUpdatedAt,  \* what LastUpdatedAt answered
    stackOpts,      \* stack options handed to DeployService
    spinner,        \* last message given to spinner.Stop
    history,        \* summaries of the completed calls, oldest first
    input,          \* arguments of a function exercised on its own (as the table tests do)
    output,         \* what that function returned
    wait            \* the stability wait in progress inside ForceUpdateService

vars == <<lbMft, app, env, stackUpToDate, pc, opts, calls, err, cmdRunAt,
          submitted, lastUpdatedAt, stackOpts, spinner, history, input, output,
          wait>>

\* The variables of the table tests that call one function directly and of
\* the wait inside the force-update collaborator: the steps of DeployWorkload
\* itself leave them alone.
fnVars == <<input, output, wait>>

\* ---------------------------------------------------------------- bounds
MaxRuns == 2
MaxTime == 2

\* ------------------------------------------------------------- constants
NoErr == <<>>
NoTime == -1
SomeError == "some error"
ChangeSetEmptyMsg == "change set has no changes"
TimeoutMsg == "max retries exceeded"

Times == 0..MaxTime

mockAppName == <<"a">>
mockEnvName == <<"e">>
mockDomain == <<"d">>
\* A domain of two labels, as "example.com" is.
mockDottedDomain == <<"d", ".", "d">>
NoDomain == <<>>

\* "v.d": one label in front of the application domain.
mockSvcAlias == <<"v", ".", "d">>
\* "v.w.d": the shape of "v1.v2.mockDomain".
mockNestedAlias == <<"v", ".", "w", ".", "d">>

AliasChoices == { <<>>, <<mockSvcAlias>>, <<mockNestedAlias>> }

\* Version() answers: an error, "v0.0.0" or "v1.0.0".
VersionAnswers ==
    { [ok |-> FALSE, v |-> <<0, 0, 0>>],
      [ok |-> TRUE,  v |-> <<0, 0, 0>>],
      [ok |-> TRUE,  v |-> <<1, 0, 0>>] }

AliasLeastAppTemplateVersion == <<1, 0, 0>>

\* ---------------------------------------------------------------- helpers
Count(log, name) == Cardinality({ i \in 1..Len(log) : log[i] = name })

Called(name) == Count(calls, name) > 0

HasImportedCerts(e) == e.ImportCertARNs # <<>>

\* semver.Compare on three-part versions: -1, 0 or 1.
semverCompare(v, w) ==
    IF v[1] # w[1] THEN (IF v[1] < w[1] THEN -1 ELSE 1)
    ELSE IF v[2] # w[2] THEN (IF v[2] < w[2] THEN -1 ELSE 1)
    ELSE IF v[3] # w[3] THEN (IF v[3] < w[3] THEN -1 ELSE 1)
    ELSE 0

\* ------------------------------------------------------- alias validation
\* The alias validators are exercised through the rows of
\* TestWorkloadDeployer_DeployWorkload and
\* TestSvcDeployOpts_rdWebServiceStackConfiguration.  The rows fix the
\* outcome of "v1.mockDomain", "v1.v2.mockDomain", "v1.someRandomDomain",
\* "mockDomain", "mockEnv.mockApp.mockDomain" and
\* "someSub.mockApp.mockDomain"; for every other alias the outcome is the one
\* the alias/domain validator's contract gives: the alias is classified by
\* the labels it carries in front of the application's domain.
ErrEnvLevelAlias == <<"is an environment-level alias, which is not supported yet">>
ErrAppLevelAlias == <<"is an application-level alias, which is not supported yet">>
ErrRootDomainAlias == <<"is a root domain alias, which is not supported yet">>
ErrUnmanagedZone ==
    <<"alias is not supported in hosted zones that are not managed by Copilot">>
ErrManagedZones == <<"alias is not supported in hosted zones managed by Copilot">>

Join(a, b) == a \o <<".">> \o b

\* The labels of a host name: the text between its dots.
RECURSIVE splitLabels(_)
splitLabels(s) ==
    IF \A i \in 1..Len(s) : s[i] # "." THEN <<s>>
    ELSE LET k == CHOOSE i \in 1..Len(s) :
                      s[i] = "." /\ \A j \in 1..(i - 1) : s[j] # "."
         IN  <<SubSeq(s, 1, k - 1)>> \o splitLabels(SubSeq(s, k + 1, Len(s)))

\* Variant: an alias equal to the domain is not singled out and counts as
\* lying outside the zones.
aliasScope_noRoot(alias, envName, a) ==
    LET ls == splitLabels(alias)
        zone == splitLabels(a.Domain)
        n == Len(ls) - Len(zone)
    IN  IF n <= 0 \/ SubSeq(ls, n + 1, Len(ls)) # zone THEN "outside"
        ELSE IF \E i \in 1..n : ls[i] = <<>> THEN "outside"
        ELSE IF n = 1 THEN "service"
        ELSE IF n = 2 /\ ls[2] = a.Name
             THEN (IF ls[1] = envName THEN "environment" ELSE "application")
        ELSE "outside"

\* Variant: the label in front of <app>.<domain> is optional, so that
\* <app>.<domain> itself is application-level.
aliasScope_appLabelOptional(alias, envName, a) ==
    LET ls == splitLabels(alias)
        zone == splitLabels(a.Domain)
        n == Len(ls) - Len(zone)
    IN  IF n < 0 \/ SubSeq(ls, n + 1, Len(ls)) # zone THEN "outside"
        ELSE IF n = 0 THEN "root"
        ELSE IF \E i \in 1..n : ls[i] = <<>> THEN "outside"
        ELSE IF n = 1 THEN (IF ls[1] = a.Name THEN "application" ELSE "service")
        ELSE IF n = 2 /\ ls[2] = a.Name
             THEN (IF ls[1] = envName THEN "environment" ELSE "application")
        ELSE "outside"

\* Variant: the alias only has to start with <label>.<domain>; what follows
\* the domain is not looked at.
aliasScope_prefixOnly(alias, envName, a) ==
    LET ls == splitLabels(alias)
        zone == splitLabels(a.Domain)
        n == Len(ls) - Len(zone)
    IN  IF /\ n >= 1
           /\ ls[1] # <<>>
           /\ SubSeq(ls, 2, Len(zone) + 1) = zone
        THEN "service"
        ELSE IF n < 0 \/ SubSeq(ls, n + 1, Len(ls)) # zone THEN "outside"
        ELSE IF n = 0 THEN "root"
        ELSE IF \E i \in 1..n : ls[i] = <<>> THEN "outside"
        ELSE IF n = 2 /\ ls[2] = a.Name
             THEN (IF ls[1] = envName THEN "environment" ELSE "application")
        ELSE "outside"

\* Variant: the label in front of <app>.<domain> is not compared with the
\* environment's name.
aliasScope_noEnvCheck(alias, envName, a) ==
    LET ls == splitLabels(alias)
        zone == splitLabels(a.Domain)
        n == Len(ls) - Len(zone)
    IN  IF n < 0 \/ SubSeq(ls, n + 1, Len(ls)) # zone THEN "outside"
        ELSE IF n = 0 THEN "root"
        ELSE IF \E i \in 1..n : ls[i] = <<>> THEN "outside"
        ELSE IF n = 1 THEN "service"
        ELSE IF n = 2 /\ ls[2] = a.Name THEN "application"
        ELSE "outside"

\* Variant: the environment's name directly in front of the domain counts as
\* environment-level.
aliasScope_envLabel(alias, envName, a) ==
    LET ls == splitLabels(alias)
        zone == splitLabels(a.Domain)
        n == Len(ls) - Len(zone)
    IN  IF n < 0 \/ SubSeq(ls, n + 1, Len(ls)) # zone THEN "outside"
        ELSE IF n = 0 THEN "root"
        ELSE IF \E i \in 1..n : ls[i] = <<>> THEN "outside"
        ELSE IF n = 1 THEN (IF ls[1] = envName THEN "environment" ELSE "service")
        ELSE IF n = 2 /\ ls[2] = a.Name
             THEN (IF ls[1] = envName THEN "environment" ELSE "application")
        ELSE "outside"

\* The scope of an alias relative to the application's domain:
\*   the domain itself                      root
\*   <label>.<domain>                       service
\*   <env>.<app>.<domain>                   environment
\*   <label>.<app>.<domain>, label # env    application
\*   anything else                          outside the zones
\* "v1.v2.mockDomain" (rows 449-483) and "v1.someRandomDomain" (769-785)
\* are outside; so is an alias with an empty label.
aliasScope(alias, envName, a) ==
    LET ls == splitLabels(alias)
        zone == splitLabels(a.Domain)
        n == Len(ls) - Len(zone)
    IN  IF n < 0 \/ SubSeq(ls, n + 1, Len(ls)) # zone THEN "outside"
        ELSE IF n = 0 THEN "root"
        ELSE IF \E i \in 1..n : ls[i] = <<>> THEN "outside"
        ELSE IF n = 1 THEN "service"
        ELSE IF n = 2 /\ ls[2] = a.Name
             THEN (IF ls[1] = envName THEN "environment" ELSE "application")
        ELSE "outside"

\* The error of an alias of a load-balanced web service: the unsupported
\* scopes as the validator's contract names them, and for an alias outside
\* the zones the message of rows 449-483.
lbAliasErr(alias, a, envName) ==
    LET scope == aliasScope(alias, envName, a) IN
    CASE scope = "service" -> NoErr
      [] scope = "root" -> ErrRootDomainAlias
      [] scope = "environment" -> ErrEnvLevelAlias
      [] scope = "application" -> ErrAppLevelAlias
      [] OTHER -> ErrManagedZones

\* The aliases are validated in order; the first rejected one is reported.
validateLBWSAlias(aliases, a, envName) ==
    IF \A i \in 1..Len(aliases) : lbAliasErr(aliases[i], a, envName) = NoErr
    THEN NoErr
    ELSE lbAliasErr(aliases[CHOOSE i \in 1..Len(aliases) :
                                /\ lbAliasErr(aliases[i], a, envName) # NoErr
                                /\ \A j \in 1..(i - 1) :
                                      lbAliasErr(aliases[j], a, envName) = NoErr],
                    a, envName)

\* Variant: every version the getter returns is accepted.
validateAppVersionForAlias_noThreshold(ver) ==
    IF ~ver.ok THEN <<"get version for app", SomeError>>
    ELSE NoErr
validateAppVersionForAlias(ver) ==
    IF ~ver.ok THEN <<"get version for app", SomeError>>
    ELSE IF semverCompare(ver.v, AliasLeastAppTemplateVersion) < 0
         THEN <<"alias is not compatible with application versions below v1.0.0">>
         ELSE NoErr

\* ------------------------------------------------- stack configuration
ErrNoALBAliasWithImportedCerts ==
    <<"cannot deploy service without http.alias to environment with certificate imported">>
ErrALBAliasNoDomain ==
    <<"cannot specify http.alias when application is not associated with a domain and env doesn't import one or more certificates">>
ErrNLBAliasImportedCerts ==
    <<"cannot specify nlb.alias when env imports one or more certificates">>
ErrNLBAliasNoDomain ==
    <<"cannot specify nlb.alias when application is not associated with a domain">>


\* Variant: the final branch lets an alias through when the application has
\* no domain.
validateALBRuntime_noDomainCheck(mft, a, e, certOK, ver) ==
    IF mft.aliases = <<>> THEN
        IF HasImportedCerts(e)
        THEN [err |-> ErrNoALBAliasWithImportedCerts, calls |-> <<>>]
        ELSE [err |-> NoErr, calls |-> <<>>]
    ELSE IF HasImportedCerts(e) THEN
        [err   |-> IF certOK THEN NoErr
                   ELSE <<"validate aliases against the imported certificate for env", SomeError>>,
         calls |-> <<"ValidateCertAliases">>]
    ELSE IF a.Domain # NoDomain THEN
        [err   |-> IF validateAppVersionForAlias(ver) # NoErr
                   THEN validateAppVersionForAlias(ver)
                   ELSE validateLBWSAlias(mft.aliases, a, e.Name),
         calls |-> <<"Version">>]
    ELSE [err |-> NoErr, calls |-> <<>>]

\* Variant: a manifest without an HTTP alias is accepted whatever the
\* environment's certificates.
validateALBRuntime_noAliasAccepted(mft, a, e, certOK, ver) ==
    IF mft.aliases = <<>> THEN [err |-> NoErr, calls |-> <<>>]
    ELSE IF HasImportedCerts(e) THEN
        [err   |-> IF certOK THEN NoErr
                   ELSE <<"validate aliases against the imported certificate for env", SomeError>>,
         calls |-> <<"ValidateCertAliases">>]
    ELSE IF a.Domain # NoDomain THEN
        [err   |-> IF validateAppVersionForAlias(ver) # NoErr
                   THEN validateAppVersionForAlias(ver)
                   ELSE validateLBWSAlias(mft.aliases, a, e.Name),
         calls |-> <<"Version">>]
    ELSE [err |-> ErrALBAliasNoDomain, calls |-> <<>>]

\* Variant: the application version is checked on the imported-certificate
\* path too.
validateALBRuntime_versionWithCerts(mft, a, e, certOK, ver) ==
    IF mft.aliases = <<>> THEN
        IF HasImportedCerts(e)
        THEN [err |-> ErrNoALBAliasWithImportedCerts, calls |-> <<>>]
        ELSE [err |-> NoErr, calls |-> <<>>]
    ELSE IF HasImportedCerts(e) THEN
        IF validateAppVersionForAlias(ver) # NoErr
        THEN [err |-> validateAppVersionForAlias(ver), calls |-> <<"Version">>]
        ELSE [err   |-> IF certOK THEN NoErr
                        ELSE <<"validate aliases against the imported certificate for env", SomeError>>,
              calls |-> <<"Version", "ValidateCertAliases">>]
    ELSE IF a.Domain # NoDomain THEN
        [err   |-> IF validateAppVersionForAlias(ver) # NoErr
                   THEN validateAppVersionForAlias(ver)
                   ELSE validateLBWSAlias(mft.aliases, a, e.Name),
         calls |-> <<"Version">>]
    ELSE [err |-> ErrALBAliasNoDomain, calls |-> <<>>]

\* Variant: the HTTP aliases are not matched against the hosted zones.
validateALBRuntime_noZoneCheck(mft, a, e, certOK, ver) ==
    IF mft.aliases = <<>> THEN
        IF HasImportedCerts(e)
        THEN [err |-> ErrNoALBAliasWithImportedCerts, calls |-> <<>>]
        ELSE [err |-> NoErr, calls |-> <<>>]
    ELSE IF HasImportedCerts(e) THEN
        [err   |-> IF certOK THEN NoErr
                   ELSE <<"validate aliases against the imported certificate for env", SomeError>>,
         calls |-> <<"ValidateCertAliases">>]
    ELSE IF a.Domain # NoDomain THEN
        [err   |-> validateAppVersionForAlias(ver),
         calls |-> <<"Version">>]
    ELSE [err |-> ErrALBAliasNoDomain, calls |-> <<>>]

\* Variant: with imported certificates the aliases must also lie in a hosted
\* zone of the application.
validateALBRuntime_zoneRulesWithCerts(mft, a, e, certOK, ver) ==
    IF mft.aliases = <<>> THEN
        IF HasImportedCerts(e)
        THEN [err |-> ErrNoALBAliasWithImportedCerts, calls |-> <<>>]
        ELSE [err |-> NoErr, calls |-> <<>>]
    ELSE IF HasImportedCerts(e) THEN
        [err   |-> IF validateLBWSAlias(mft.aliases, a, e.Name) # NoErr
                   THEN validateLBWSAlias(mft.aliases, a, e.Name)
                   ELSE IF certOK THEN NoErr
                   ELSE <<"validate aliases against the imported certificate for env", SomeError>>,
         calls |-> <<"ValidateCertAliases">>]
    ELSE IF a.Domain # NoDomain THEN
        [err   |-> IF validateAppVersionForAlias(ver) # NoErr
                   THEN validateAppVersionForAlias(ver)
                   ELSE validateLBWSAlias(mft.aliases, a, e.Name),
         calls |-> <<"Version">>]
    ELSE [err |-> ErrALBAliasNoDomain, calls |-> <<>>]
\* lbSvcDeployer.validateALBRuntime.  certOK and ver are the answers the
\* certificate validator and the version getter give if they are asked.
validateALBRuntime(mft, a, e, certOK, ver) ==
    IF mft.aliases = <<>> THEN
        IF HasImportedCerts(e)
        THEN [err |-> ErrNoALBAliasWithImportedCerts, calls |-> <<>>]
        ELSE [err |-> NoErr, calls |-> <<>>]
    ELSE IF HasImportedCerts(e) THEN
        [err   |-> IF certOK THEN NoErr
                   ELSE <<"validate aliases against the imported certificate for env", SomeError>>,
         calls |-> <<"ValidateCertAliases">>]
    ELSE IF a.Domain # NoDomain THEN
        [err   |-> IF validateAppVersionForAlias(ver) # NoErr
                   THEN validateAppVersionForAlias(ver)
                   ELSE validateLBWSAlias(mft.aliases, a, e.Name),
         calls |-> <<"Version">>]
    ELSE [err |-> ErrALBAliasNoDomain, calls |-> <<>>]


\* Variant: the imported-certificate check is left out.
validateNLBRuntime_noCertCheck(mft, a, e, ver) ==
    IF mft.nlbAliases = <<>> THEN [err |-> NoErr, calls |-> <<>>]
    ELSE IF a.Domain = NoDomain THEN [err |-> ErrNLBAliasNoDomain, calls |-> <<>>]
    ELSE [err   |-> IF validateAppVersionForAlias(ver) # NoErr
                    THEN validateAppVersionForAlias(ver)
                    ELSE validateLBWSAlias(mft.nlbAliases, a, e.Name),
          calls |-> <<"Version">>]

\* Variant: the application version is checked before the domain.
validateNLBRuntime_versionBeforeDomain(mft, a, e, ver) ==
    IF mft.nlbAliases = <<>> THEN [err |-> NoErr, calls |-> <<>>]
    ELSE IF HasImportedCerts(e) THEN [err |-> ErrNLBAliasImportedCerts, calls |-> <<>>]
    ELSE IF validateAppVersionForAlias(ver) # NoErr
         THEN [err |-> validateAppVersionForAlias(ver), calls |-> <<"Version">>]
    ELSE IF a.Domain = NoDomain THEN [err |-> ErrNLBAliasNoDomain, calls |-> <<"Version">>]
    ELSE [err   |-> validateLBWSAlias(mft.nlbAliases, a, e.Name),
          calls |-> <<"Version">>]
\* lbSvcDeployer.validateNLBRuntime.
validateNLBRuntime(mft, a, e, ver) ==
    IF mft.nlbAliases = <<>> THEN [err |-> NoErr, calls |-> <<>>]
    ELSE IF HasImportedCerts(e) THEN [err |-> ErrNLBAliasImportedCerts, calls |-> <<>>]
    ELSE IF a.Domain = NoDomain THEN [err |-> ErrNLBAliasNoDomain, calls |-> <<>>]
    ELSE [err   |-> IF validateAppVersionForAlias(ver) # NoErr
                    THEN validateAppVersionForAlias(ver)
                    ELSE validateLBWSAlias(mft.nlbAliases, a, e.Name),
          calls |-> <<"Version">>]

\* Step 3 of the load-balanced build: the NLB configuration declares a port
\* (NetworkLoadBalancerConfiguration.Port, "443/tcp" or "80" in the rows
\* that set it).  Every row with an NLB alias declares the port too, so the
\* rows do not tell the port from the alias; the condition is the
\* specification's.
nlbDeclaresPort(mft) == mft.nlbPort


\* Variant: an empty change set is never an error.
deployServiceErr_emptyIsSuccess(resp, force) ==
    CASE resp = "error" -> <<"deploy service", SomeError>>
      [] OTHER -> NoErr

\* Variant: the empty-change-set error is returned without its wrapper.
deployServiceErr_unwrapped(resp, force) ==
    CASE resp = "error" -> <<"deploy service", SomeError>>
      [] resp = "empty" /\ ~force -> <<ChangeSetEmptyMsg>>
      [] OTHER -> NoErr

\* Variant: with the force flag every DeployService error is passed over.
deployServiceErr_forceSwallowsAll(resp, force) ==
    CASE resp = "error" /\ ~force -> <<"deploy service", SomeError>>
      [] resp = "empty" /\ ~force -> <<"deploy service", ChangeSetEmptyMsg>>
      [] OTHER -> NoErr
\* ------------------------------------------------------------ svcDeployer
\* The error svcDeployer.deploy returns right after DeployService answered
\* resp ("ok", "empty" for ErrChangeSetEmpty, "error" for anything else).
deployServiceErr(resp, force) ==
    CASE resp = "error" -> <<"deploy service", SomeError>>
      [] resp = "empty" /\ ~force -> <<"deploy service", ChangeSetEmptyMsg>>
      [] OTHER -> NoErr


\* Variant: the last update time is asked for after every accepted submission.
checksLastUpdate_always(resp, force) == TRUE

\* Variant: the last update time is asked for only after an empty change set.
checksLastUpdate_onlyWhenEmpty(resp, force) == force /\ resp = "empty"
\* Whether deploy goes on to ask LastUpdatedAt once DeployService has not
\* made it return.
checksLastUpdate(resp, force) == force


\* Variant: !cmdRunAt.Before(lastUpdatedAt)
cmdRunAfter_notBefore(runAt, updatedAt) == runAt >= updatedAt
\* cmdRunAt.After(lastUpdatedAt)
cmdRunAfter(runAt, updatedAt) == runAt > updatedAt


\* Variant: a timeout is reported like any other failure.
forceDeploy_noTimeoutCase(r) ==
    CASE r = "ok" ->
            [err |-> NoErr, spinner |-> "complete"]
      [] r = "timeout" ->
            [err |-> <<"force an update for service", TimeoutMsg>>,
             spinner |-> "failed"]
      [] OTHER ->
            [err |-> <<"force an update for service", SomeError>>,
             spinner |-> "failed"]
\* svcDeployer.forceDeploy, given what ForceUpdateService answered.
forceDeploy(r) ==
    CASE r = "ok" ->
            [err |-> NoErr, spinner |-> "complete"]
      [] r = "timeout" ->
            [err |-> <<"force an update for service", TimeoutMsg>>,
             spinner |-> "failed, run copilot svc status to check for the fail reason"]
      [] OTHER ->
            [err |-> <<"force an update for service", SomeError>>,
             spinner |-> "failed"]

\* The stack options DeployService receives.
stackOptions(o) ==
    IF o.DisableRollback THEN <<"WithRoleARN", "WithDisableRollback">>
    ELSE <<"WithRoleARN">>

\* What the provisioning backend can answer to a submission.
SubmitAnswers(upToDate) == IF upToDate THEN {"empty", "error"} ELSE {"ok", "error"}

\* ------------------------------------------------------------------ state
\* The harness hands tc.inAliases and tc.inNLB to the manifest as they are:
\* any HTTP alias, with or without an NLB port, with or without NLB aliases.
Manifests ==
    [aliases : AliasChoices, nlbPort : BOOLEAN, nlbAliases : AliasChoices]

Init ==
    /\ lbMft \in Manifests
    /\ app \in [Name : {mockAppName}, Domain : {NoDomain, mockDomain}]
    /\ env \in [Name : {mockEnvName}, ImportCertARNs : {<<>>, <<"mockCertARN">>}]
    /\ stackUpToDate \in BOOLEAN
    /\ pc = "idle"
    /\ opts = [ForceNewUpdate |-> FALSE, DisableRollback |-> FALSE]
    /\ calls = <<>>
    /\ err = NoErr
    /\ cmdRunAt = NoTime
    /\ submitted = "none"
    /\ lastUpdatedAt = NoTime
    /\ stackOpts = <<>>
    /\ spinner = "none"
    /\ history = <<>>
    /\ input = <<>>
    /\ output = <<>>
    /\ wait = <<>>

deployerVars == <<lbMft, app, env>>

\* DeployWorkload is entered with its Options.
DeployWorkload(force, rollback) ==
    /\ pc = "idle"
    /\ Len(history) < MaxRuns
    /\ opts' = [ForceNewUpdate |-> force, DisableRollback |-> rollback]
    /\ pc' = "runtimeConfig"
    /\ UNCHANGED <<fnVars, deployerVars, stackUpToDate, calls, err, cmdRunAt, submitted,
                   lastUpdatedAt, stackOpts, spinner, history>>

\* Variant: the application version is read before the endpoint is resolved.
RuntimeConfig_versionFirst(ok) ==
    /\ pc = "runtimeConfig"
    /\ calls' = calls \o <<"Version", "ServiceDiscoveryEndpoint">>
    /\ IF ok
       THEN pc' = "validateALBRuntime" /\ err' = err
       ELSE pc' = "done" /\ err' = <<"get service discovery endpoint", SomeError>>
    /\ UNCHANGED <<fnVars, deployerVars, stackUpToDate, opts, cmdRunAt, submitted,
                   lastUpdatedAt, stackOpts, spinner, history>>

\* workloadDeployer.runtimeConfig: the service discovery endpoint is asked first.
RuntimeConfig(ok) ==
    /\ pc = "runtimeConfig"
    /\ calls' = Append(calls, "ServiceDiscoveryEndpoint")
    /\ IF ok
       THEN pc' = "validateALBRuntime" /\ err' = err
       ELSE pc' = "done" /\ err' = <<"get service discovery endpoint", SomeError>>
    /\ UNCHANGED <<fnVars, deployerVars, stackUpToDate, opts, cmdRunAt, submitted,
                   lastUpdatedAt, stackOpts, spinner, history>>

\* Variant: the build goes on after a failed HTTP alias validation.
ValidateALBRuntime_goesOn(certOK, ver) ==
    /\ pc = "validateALBRuntime"
    /\ LET r == validateALBRuntime(lbMft, app, env, certOK, ver) IN
        /\ calls' = calls \o r.calls
        /\ err' = r.err
        /\ pc' = "validateNLBRuntime"
    /\ UNCHANGED <<fnVars, deployerVars, stackUpToDate, opts, cmdRunAt, submitted,
                   lastUpdatedAt, stackOpts, spinner, history>>

ValidateALBRuntime(certOK, ver) ==
    /\ pc = "validateALBRuntime"
    /\ LET r == validateALBRuntime(lbMft, app, env, certOK, ver) IN
        /\ calls' = calls \o r.calls
        /\ err' = r.err
        /\ pc' = IF r.err = NoErr THEN "validateNLBRuntime" ELSE "done"
    /\ UNCHANGED <<fnVars, deployerVars, stackUpToDate, opts, cmdRunAt, submitted,
                   lastUpdatedAt, stackOpts, spinner, history>>

ValidateNLBRuntime(ver) ==
    /\ pc = "validateNLBRuntime"
    /\ LET r == validateNLBRuntime(lbMft, app, env, ver) IN
        /\ calls' = calls \o r.calls
        /\ err' = r.err
        /\ pc' = IF r.err = NoErr THEN "publicCIDRBlocks" ELSE "done"
    /\ UNCHANGED <<fnVars, deployerVars, stackUpToDate, opts, cmdRunAt, submitted,
                   lastUpdatedAt, stackOpts, spinner, history>>

\* Variant: the CIDR blocks are asked for whatever the manifest.
PublicCIDRBlocks_always(ok) ==
    /\ pc = "publicCIDRBlocks"
    /\ calls' = Append(calls, "PublicCIDRBlocks")
    /\ IF ok
       THEN pc' = "deploy" /\ err' = err
       ELSE /\ pc' = "done"
            /\ err' = <<"get public CIDR blocks information from the VPC of environment", SomeError>>
    /\ UNCHANGED <<fnVars, deployerVars, stackUpToDate, opts, cmdRunAt, submitted,
                   lastUpdatedAt, stackOpts, spinner, history>>

\* The CIDR blocks are asked for only when the manifest's NLB declares a port.
PublicCIDRBlocks(ok) ==
    /\ pc = "publicCIDRBlocks"
    /\ IF ~nlbDeclaresPort(lbMft)
       THEN /\ pc' = "deploy"
            /\ UNCHANGED <<calls, err>>
       ELSE /\ calls' = Append(calls, "PublicCIDRBlocks")
            /\ IF ok
               THEN pc' = "deploy" /\ err' = err
               ELSE /\ pc' = "done"
                    /\ err' = <<"get public CIDR blocks information from the VPC of environment", SomeError>>
    /\ UNCHANGED <<fnVars, deployerVars, stackUpToDate, opts, cmdRunAt, submitted,
                   lastUpdatedAt, stackOpts, spinner, history>>

\* Variant: the clock is read once the backend has answered.
Deploy_clockAfterSubmit(t, resp) ==
    /\ pc = "deploy"
    /\ resp \in SubmitAnswers(stackUpToDate)
    /\ cmdRunAt' = t
    /\ calls' = calls \o <<"DeployService", "now">>
    /\ stackOpts' = stackOptions(opts)
    /\ submitted' = resp
    /\ stackUpToDate' = IF resp = "ok" THEN TRUE ELSE stackUpToDate
    /\ err' = deployServiceErr(resp, opts.ForceNewUpdate)
    /\ pc' = IF deployServiceErr(resp, opts.ForceNewUpdate) # NoErr THEN "done"
             ELSE IF checksLastUpdate(resp, opts.ForceNewUpdate) THEN "lastUpdatedAt"
             ELSE "done"
    /\ UNCHANGED <<fnVars, deployerVars, opts, lastUpdatedAt, spinner, history>>

\* svcDeployer.deploy up to the answer of DeployService: the clock is read,
\* then the configuration is submitted.
Deploy(t, resp) ==
    /\ pc = "deploy"
    /\ resp \in SubmitAnswers(stackUpToDate)
    /\ cmdRunAt' = t
    /\ calls' = calls \o <<"now", "DeployService">>
    /\ stackOpts' = stackOptions(opts)
    /\ submitted' = resp
    /\ stackUpToDate' = IF resp = "ok" THEN TRUE ELSE stackUpToDate
    /\ err' = deployServiceErr(resp, opts.ForceNewUpdate)
    /\ pc' = IF deployServiceErr(resp, opts.ForceNewUpdate) # NoErr THEN "done"
             ELSE IF checksLastUpdate(resp, opts.ForceNewUpdate) THEN "lastUpdatedAt"
             ELSE "done"
    /\ UNCHANGED <<fnVars, deployerVars, opts, lastUpdatedAt, spinner, history>>

\* Variant: a failed LastUpdatedAt is taken for a stale service.
LastUpdatedAt_goesOn(ok, t) ==
    /\ pc = "lastUpdatedAt"
    /\ calls' = Append(calls, "LastUpdatedAt")
    /\ IF ~ok
       THEN /\ err' = err
            /\ pc' = "forceDeploy"
            /\ UNCHANGED lastUpdatedAt
       ELSE /\ lastUpdatedAt' = t
            /\ err' = err
            /\ pc' = IF cmdRunAfter(cmdRunAt, t) THEN "forceDeploy" ELSE "done"
    /\ UNCHANGED <<fnVars, deployerVars, stackUpToDate, opts, cmdRunAt, submitted,
                   stackOpts, spinner, history>>

\* LastUpdatedAt answers with an error (ok = FALSE) or with the time t.
LastUpdatedAt(ok, t) ==
    /\ pc = "lastUpdatedAt"
    /\ calls' = Append(calls, "LastUpdatedAt")
    /\ IF ~ok
       THEN /\ err' = <<"get the last updated deployment time", SomeError>>
            /\ pc' = "done"
            /\ UNCHANGED lastUpdatedAt
       ELSE /\ lastUpdatedAt' = t
            /\ err' = err
            /\ pc' = IF cmdRunAfter(cmdRunAt, t) THEN "forceDeploy" ELSE "done"
    /\ UNCHANGED <<fnVars, deployerVars, stackUpToDate, opts, cmdRunAt, submitted,
                   stackOpts, spinner, history>>

ForceDeploy(r) ==
    /\ pc = "forceDeploy"
    /\ calls' = Append(calls, "ForceUpdateService")
    /\ err' = forceDeploy(r).err
    /\ spinner' = forceDeploy(r).spinner
    /\ pc' = "done"
    /\ UNCHANGED <<fnVars, deployerVars, stackUpToDate, opts, cmdRunAt, submitted,
                   lastUpdatedAt, stackOpts, history>>

\* What is remembered of a completed call.
summary ==
    [force     |-> opts.ForceNewUpdate,
     submitted |-> submitted,
     err       |-> err,
     forced    |-> Count(calls, "ForceUpdateService")]

\* DeployWorkload returns; the deployer can be invoked again.
Return ==
    /\ pc = "done"
    /\ history' = Append(history, summary)
    /\ pc' = "idle"
    /\ opts' = [ForceNewUpdate |-> FALSE, DisableRollback |-> FALSE]
    /\ calls' = <<>>
    /\ err' = NoErr
    /\ cmdRunAt' = NoTime
    /\ submitted' = "none"
    /\ lastUpdatedAt' = NoTime
    /\ stackOpts' = <<>>
    /\ spinner' = "none"
    /\ UNCHANGED <<fnVars, deployerVars, stackUpToDate>>

Next ==
    \/ \E force \in BOOLEAN, rollback \in BOOLEAN : DeployWorkload(force, rollback)
    \/ \E ok \in BOOLEAN : RuntimeConfig(ok)
    \/ \E certOK \in BOOLEAN, ver \in VersionAnswers : ValidateALBRuntime(certOK, ver)
    \/ \E ver \in VersionAnswers : ValidateNLBRuntime(ver)
    \/ \E ok \in BOOLEAN : PublicCIDRBlocks(ok)
    \/ \E t \in Times, resp \in {"ok", "empty", "error"} : Deploy(t, resp)
    \/ \E ok \in BOOLEAN, t \in Times : LastUpdatedAt(ok, t)
    \/ \E r \in {"ok", "timeout", "error"} : ForceDeploy(r)
    \/ Return

Spec == Init /\ [][Next]_vars

\* ---------------------------------------------------------------- claims
ErrEndpoint == <<"get service discovery endpoint", SomeError>>
ErrCertAliases == <<"validate aliases against the imported certificate for env", SomeError>>
ErrDeployEmpty == <<"deploy service", ChangeSetEmptyMsg>>
ErrDeployFailed == <<"deploy service", SomeError>>
SpinnerTimedOut == "failed, run copilot svc status to check for the fail reason"

ForceUpdates == Count(calls, "ForceUpdateService")

\* C1: with force-update requested and an empty change set, a last update
\* time at or after the recorded start time means ForceUpdate is never
\* called and the deploy succeeds; a last update time strictly before the
\* start time means ForceUpdate is called exactly once.
C1_ForceUpdateStaleness ==
    (opts.ForceNewUpdate /\ submitted = "empty" /\ lastUpdatedAt # NoTime) =>
        /\ lastUpdatedAt >= cmdRunAt =>
              (ForceUpdates = 0 /\ pc = "done" /\ err = NoErr)
        /\ lastUpdatedAt < cmdRunAt =>
              (ForceUpdates <= 1 /\ (pc = "done" => ForceUpdates = 1))

C1_Witness ==
    /\ pc = "done" /\ opts.ForceNewUpdate /\ submitted = "empty"
    /\ lastUpdatedAt = cmdRunAt /\ ForceUpdates = 0 /\ err = NoErr

\* C2 as stated: an empty change set without the force flag is a successful
\* no-op deploy.
C2_Original ==
    (pc = "done" /\ submitted = "empty" /\ ~opts.ForceNewUpdate) => err = NoErr

\* C2 (amended): an empty change set without the force flag makes
\* DeployWorkload return an error; it is not reported as a success.
C2_EmptyChangeSetFails ==
    (pc = "done" /\ submitted = "empty" /\ ~opts.ForceNewUpdate) => err # NoErr

C2_Witness ==
    pc = "done" /\ submitted = "empty" /\ ~opts.ForceNewUpdate /\ err # NoErr

\* C3: an empty change set without the force flag makes DeployWorkload
\* return "deploy service: <change-set-empty cause>", and neither
\* LastUpdatedAt nor ForceUpdateService is called.
C3_EmptyChangeSetError ==
    (submitted = "empty" /\ ~opts.ForceNewUpdate) =>
        /\ pc = "done"
        /\ err = ErrDeployEmpty
        /\ ~Called("LastUpdatedAt")
        /\ ~Called("ForceUpdateService")

C3_Witness ==
    /\ submitted = "empty" /\ ~opts.ForceNewUpdate
    /\ calls = <<"ServiceDiscoveryEndpoint", "now", "DeployService">>
    /\ err = ErrDeployEmpty

\* Two consecutive completed calls without the force flag, the first one
\* applied and the second one finding nothing to change.
Rerun(i) ==
    /\ i + 1 <= Len(history)
    /\ ~history[i].force /\ ~history[i + 1].force
    /\ history[i].submitted = "ok"
    /\ history[i + 1].submitted = "empty"

\* C4 as stated: deploying twice with an unchanged manifest and without the
\* force flag succeeds both times, with no force update.
C4_Original ==
    \A i \in 1..Len(history) :
        Rerun(i) =>
            /\ history[i].err = NoErr /\ history[i + 1].err = NoErr
            /\ history[i].forced = 0 /\ history[i + 1].forced = 0

\* C4 (amended): deploying twice with an unchanged manifest and without the
\* force flag succeeds the first time and returns the empty-change-set
\* error the second time; no force update happens in either call.
C4_RerunWithoutForce ==
    \A i \in 1..Len(history) :
        Rerun(i) =>
            /\ history[i].err = NoErr
            /\ history[i + 1].err = ErrDeployEmpty
            /\ history[i].forced = 0 /\ history[i + 1].forced = 0

C4_Witness ==
    /\ Len(history) >= 2
    /\ Rerun(1)
    /\ history[1].err = NoErr
    /\ history[2].err = ErrDeployEmpty

\* C5: a DeployService error other than the empty change set ends the
\* deploy with an error wrapping the cause; DeployService is called once,
\* LastUpdatedAt and ForceUpdate are not called, with or without the force
\* flag.
C5_SubmitErrorIsFatal ==
    submitted = "error" =>
        /\ pc = "done"
        /\ err = ErrDeployFailed
        /\ Count(calls, "DeployService") = 1
        /\ ~Called("LastUpdatedAt")
        /\ ~Called("ForceUpdateService")

C5_Witness ==
    /\ submitted = "error" /\ opts.ForceNewUpdate
    /\ pc = "done" /\ err = ErrDeployFailed

\* C6 as stated: an applied submission never leads to LastUpdatedAt or
\* ForceUpdate, even with the force flag.
C6_Original ==
    submitted = "ok" => (~Called("LastUpdatedAt") /\ ~Called("ForceUpdateService"))

\* C6 (amended): the staleness check is entered exactly when the force flag
\* is set and DeployService answered success or an empty change set; an
\* applied submission without the force flag is terminal, and ForceUpdate
\* is called only after LastUpdatedAt answered a time before the start time.
C6_StalenessPathEntry ==
    /\ Called("LastUpdatedAt") =>
          (opts.ForceNewUpdate /\ submitted \in {"ok", "empty"})
    /\ Called("ForceUpdateService") =>
          (Called("LastUpdatedAt") /\ lastUpdatedAt # NoTime /\ lastUpdatedAt < cmdRunAt)
    /\ (pc = "done" /\ submitted \in {"ok", "empty"} /\ opts.ForceNewUpdate) =>
          Called("LastUpdatedAt")
    /\ (submitted = "ok" /\ ~opts.ForceNewUpdate) =>
          (pc = "done" /\ err = NoErr /\ ~Called("LastUpdatedAt"))

C6_Witness ==
    /\ pc = "done" /\ submitted = "ok" /\ opts.ForceNewUpdate
    /\ Called("LastUpdatedAt") /\ ~Called("ForceUpdateService")
    /\ err = NoErr

\* C7: a ForceUpdate timeout is reported with the guidance to check the
\* status, any other ForceUpdate failure without it; both make
\* DeployWorkload return an error, and ForceUpdate is not called again.
C7_ForceUpdateFailure ==
    Called("ForceUpdateService") =>
        /\ pc = "done"
        /\ ForceUpdates = 1
        /\ err \in {NoErr,
                    <<"force an update for service", TimeoutMsg>>,
                    <<"force an update for service", SomeError>>}
        /\ (err = <<"force an update for service", TimeoutMsg>>) <=> (spinner = SpinnerTimedOut)
        /\ (err = <<"force an update for service", SomeError>>) <=> (spinner = "failed")
        /\ (err = NoErr) <=> (spinner = "complete")

C7_Witness ==
    /\ pc = "done" /\ ForceUpdates = 1
    /\ err = <<"force an update for service", TimeoutMsg>>
    /\ spinner = SpinnerTimedOut

\* C8 as stated: an HTTP alias without an application domain always fails
\* with the no-domain error, whatever the environment's certificates.
C8_Original ==
    (lbMft.aliases # <<>> /\ app.Domain = NoDomain /\ pc = "done" /\ err # ErrEndpoint) =>
        (err = ErrALBAliasNoDomain /\ ~Called("DeployService"))

\* C8 (amended): an HTTP alias without an application domain fails with the
\* no-domain error when the environment imports no certificate, and
\* DeployService is never called; when the environment imports
\* certificates the alias is checked against them instead and the
\* no-domain error is not raised.
C8_AliasWithoutDomain ==
    (lbMft.aliases # <<>> /\ app.Domain = NoDomain) =>
        /\ ~HasImportedCerts(env) =>
              /\ ~Called("DeployService")
              /\ ~Called("Version")
              /\ (pc \notin {"idle", "runtimeConfig", "validateALBRuntime"}) =>
                    (pc = "done" /\ err \in {ErrEndpoint, ErrALBAliasNoDomain})
              /\ (pc = "done" /\ err # ErrEndpoint) => err = ErrALBAliasNoDomain
        /\ HasImportedCerts(env) =>
              /\ err # ErrALBAliasNoDomain
              /\ (pc \notin {"idle", "runtimeConfig", "validateALBRuntime"} /\ err # ErrEndpoint) =>
                    Called("ValidateCertAliases")

C8_Witness ==
    /\ lbMft.aliases # <<>> /\ app.Domain = NoDomain /\ ~HasImportedCerts(env)
    /\ pc = "done" /\ err = ErrALBAliasNoDomain
    /\ calls = <<"ServiceDiscoveryEndpoint">>

\* C9: with imported certificates and no HTTP alias the deploy fails with
\* the missing-alias error; the certificate validator, the CIDR getter and
\* DeployService are never called.
C9_NoAliasWithImportedCerts ==
    (HasImportedCerts(env) /\ lbMft.aliases = <<>>) =>
        /\ ~Called("ValidateCertAliases")
        /\ ~Called("PublicCIDRBlocks")
        /\ ~Called("DeployService")
        /\ (pc \notin {"idle", "runtimeConfig", "validateALBRuntime"}) => pc = "done"
        /\ (pc = "done" /\ err # ErrEndpoint) => err = ErrNoALBAliasWithImportedCerts

C9_Witness ==
    /\ HasImportedCerts(env) /\ lbMft.aliases = <<>> /\ lbMft.nlbPort
    /\ pc = "done" /\ err = ErrNoALBAliasWithImportedCerts

\* C10 as stated: with imported certificates an NLB alias is always
\* rejected with the NLB-alias error.
C10_Original ==
    (HasImportedCerts(env) /\ lbMft.nlbAliases # <<>> /\ pc = "done" /\ err # ErrEndpoint) =>
        (err = ErrNLBAliasImportedCerts /\ ~Called("DeployService"))

\* C10 (amended): with imported certificates an NLB alias always makes the
\* deploy fail before DeployService, whatever the NLB alias is; the error
\* is the NLB-alias error when an HTTP alias is set and passes the
\* certificate validation, and otherwise the HTTP alias error that comes
\* first (no alias, or aliases not covered by the certificates).
C10_NLBAliasWithImportedCerts ==
    (HasImportedCerts(env) /\ lbMft.nlbAliases # <<>>) =>
        /\ ~Called("DeployService")
        /\ ~Called("PublicCIDRBlocks")
        /\ pc \notin {"publicCIDRBlocks", "deploy", "lastUpdatedAt", "forceDeploy"}
        /\ (pc = "done" /\ err # ErrEndpoint) =>
              \/ lbMft.aliases = <<>> /\ err = ErrNoALBAliasWithImportedCerts
              \/ lbMft.aliases # <<>> /\ err \in {ErrCertAliases, ErrNLBAliasImportedCerts}

C10_Witness ==
    /\ HasImportedCerts(env) /\ lbMft.nlbAliases # <<>> /\ lbMft.aliases # <<>>
    /\ pc = "done" /\ err = ErrNLBAliasImportedCerts
    /\ calls = <<"ServiceDiscoveryEndpoint", "ValidateCertAliases">>

\* ------------------------------------------- request-driven web service
ErrIncompatibleVersion ==
    <<"alias is not compatible with application versions below v1.0.0">>
ErrRDAliasNoDomain ==
    <<"alias specified when application is not associated with a domain">>
ErrUploadCustomResources == <<"upload custom resources to bucket", SomeError>>

\* The scopes a request-driven web service reports as unsupported
\* (rows 786-836): environment-level, application-level, root domain.
checkUnsupportedRDSvcAlias(alias, envName, a) ==
    LET scope == aliasScope(alias, envName, a) IN
    CASE scope = "environment" -> ErrEnvLevelAlias
      [] scope = "application" -> ErrAppLevelAlias
      [] scope = "root" -> ErrRootDomainAlias
      [] OTHER -> NoErr

\* The alias validation of a request-driven web service for a non-empty
\* alias: the version, the unsupported scopes, then the hosted zone.
validateRDSvcAliasAndAppVersion(alias, envName, a, ver) ==
    IF validateAppVersionForAlias(ver) # NoErr THEN validateAppVersionForAlias(ver)
    ELSE IF checkUnsupportedRDSvcAlias(alias, envName, a) # NoErr
         THEN checkUnsupportedRDSvcAlias(alias, envName, a)
    ELSE IF aliasScope(alias, envName, a) = "service" THEN NoErr
    ELSE ErrUnmanagedZone

\* Variant: the custom resources are uploaded before the alias is validated.
rdStackConfiguration_uploadFirst(alias, a, e, endpointOK, ver, uploadOK) ==
    IF ~endpointOK THEN
        [err |-> <<"get service discovery endpoint", SomeError>>,
         calls |-> <<"ServiceDiscoveryEndpoint">>, rdSvcAlias |-> <<>>]
    ELSE IF alias # <<>> /\ a.Domain = NoDomain THEN
        [err |-> ErrRDAliasNoDomain,
         calls |-> <<"ServiceDiscoveryEndpoint">>, rdSvcAlias |-> <<>>]
    ELSE IF alias = <<>> THEN
        [err |-> NoErr, calls |-> <<"ServiceDiscoveryEndpoint">>, rdSvcAlias |-> <<>>]
    ELSE IF ~uploadOK THEN
        [err |-> ErrUploadCustomResources,
         calls |-> <<"ServiceDiscoveryEndpoint",
                     "UploadRequestDrivenWebServiceCustomResources">>,
         rdSvcAlias |-> <<>>]
    ELSE IF validateRDSvcAliasAndAppVersion(alias, e.Name, a, ver) # NoErr THEN
        [err |-> validateRDSvcAliasAndAppVersion(alias, e.Name, a, ver),
         calls |-> <<"ServiceDiscoveryEndpoint",
                     "UploadRequestDrivenWebServiceCustomResources", "Version">>,
         rdSvcAlias |-> <<>>]
    ELSE
        [err |-> NoErr,
         calls |-> <<"ServiceDiscoveryEndpoint",
                     "UploadRequestDrivenWebServiceCustomResources", "Version">>,
         rdSvcAlias |-> alias]

\* rdwsDeployer.stackConfiguration.  alias = <<>> is a manifest without
\* http.alias; endpointOK, ver and uploadOK are the answers of the endpoint
\* getter, the version getter and the custom resource uploader.
rdStackConfiguration(alias, a, e, endpointOK, ver, uploadOK) ==
    IF ~endpointOK THEN
        [err |-> <<"get service discovery endpoint", SomeError>>,
         calls |-> <<"ServiceDiscoveryEndpoint">>, rdSvcAlias |-> <<>>]
    ELSE IF alias # <<>> /\ a.Domain = NoDomain THEN
        [err |-> ErrRDAliasNoDomain,
         calls |-> <<"ServiceDiscoveryEndpoint">>, rdSvcAlias |-> <<>>]
    ELSE IF alias = <<>> THEN
        [err |-> NoErr, calls |-> <<"ServiceDiscoveryEndpoint">>, rdSvcAlias |-> <<>>]
    ELSE IF validateRDSvcAliasAndAppVersion(alias, e.Name, a, ver) # NoErr THEN
        [err |-> validateRDSvcAliasAndAppVersion(alias, e.Name, a, ver),
         calls |-> <<"ServiceDiscoveryEndpoint", "Version">>, rdSvcAlias |-> <<>>]
    ELSE IF ~uploadOK THEN
        [err |-> ErrUploadCustomResources,
         calls |-> <<"ServiceDiscoveryEndpoint", "Version",
                     "UploadRequestDrivenWebServiceCustomResources">>,
         rdSvcAlias |-> <<>>]
    ELSE
        [err |-> NoErr,
         calls |-> <<"ServiceDiscoveryEndpoint", "Version",
                     "UploadRequestDrivenWebServiceCustomResources">>,
         rdSvcAlias |-> alias]

\* --------------------------------------------- alias validation on its own
MaxAliasLen == 5

\* The characters aliases are written with: the application name, the
\* environment name, the domain, another letter and the dot.
AliasAlphabet == {"a", "e", "d", "v", "."}

AliasStrings == UNION { [1..n -> AliasAlphabet] : n \in 0..MaxAliasLen }

\* The variables of the deploy calls, which stay as constructed while one
\* function is exercised.
deployVars == <<lbMft, app, env, stackUpToDate, pc, opts, calls, err, cmdRunAt,
                submitted, lastUpdatedAt, stackOpts, spinner, history, wait>>

IdleDeployer ==
    /\ lbMft = [aliases |-> <<>>, nlbPort |-> FALSE, nlbAliases |-> <<>>]
    /\ app = [Name |-> mockAppName, Domain |-> NoDomain]
    /\ env = [Name |-> mockEnvName, ImportCertARNs |-> <<>>]
    /\ stackUpToDate = FALSE
    /\ pc = "idle"
    /\ opts = [ForceNewUpdate |-> FALSE, DisableRollback |-> FALSE]
    /\ calls = <<>>
    /\ err = NoErr
    /\ cmdRunAt = NoTime
    /\ submitted = "none"
    /\ lastUpdatedAt = NoTime
    /\ stackOpts = <<>>
    /\ spinner = "none"
    /\ history = <<>>
    /\ wait = <<>>

\* The names an environment goes by in the alias rows: one of its own, and
\* the application's.
EnvNames == {mockEnvName, mockAppName}

\* One row of the alias tables: the alias, the application's domain, the
\* environment's name, whether the environment imports certificates, and the
\* application's version.
InitAlias ==
    /\ IdleDeployer
    /\ input \in [alias : AliasStrings,
                  Domain : {NoDomain, mockDomain, mockDottedDomain},
                  envName : EnvNames,
                  certs : BOOLEAN,
                  ver : VersionAnswers]
    /\ output = <<>>

inApp == [Name |-> mockAppName, Domain |-> input.Domain]
inEnv == [Name |-> input.envName,
          ImportCertARNs |-> IF input.certs THEN <<"mockCertARN">> ELSE <<>>]
inAliases == IF input.alias = <<>> THEN <<>> ELSE <<input.alias>>

\* The alias is the http.alias of a load-balanced web service.
CheckHTTPAlias(certOK) ==
    /\ output = <<>>
    /\ LET r == validateALBRuntime([aliases |-> inAliases, nlbPort |-> FALSE, nlbAliases |-> <<>>],
                                   inApp, inEnv, certOK, input.ver) IN
        output' = [op |-> "http", err |-> r.err, calls |-> r.calls, rdSvcAlias |-> <<>>,
                   certOK |-> certOK, endpointOK |-> TRUE, uploadOK |-> TRUE]
    /\ UNCHANGED <<input, deployVars>>

\* The alias is the nlb.alias of a load-balanced web service.
CheckNLBAlias ==
    /\ output = <<>>
    /\ LET r == validateNLBRuntime([aliases |-> <<>>, nlbPort |-> TRUE, nlbAliases |-> inAliases],
                                   inApp, inEnv, input.ver) IN
        output' = [op |-> "nlb", err |-> r.err, calls |-> r.calls, rdSvcAlias |-> <<>>,
                   certOK |-> TRUE, endpointOK |-> TRUE, uploadOK |-> TRUE]
    /\ UNCHANGED <<input, deployVars>>

\* The alias is the http.alias of a request-driven web service.
RDStackConfiguration(endpointOK, uploadOK) ==
    /\ output = <<>>
    /\ LET r == rdStackConfiguration(input.alias, inApp, inEnv, endpointOK, input.ver, uploadOK) IN
        output' = [op |-> "rd", err |-> r.err, calls |-> r.calls, rdSvcAlias |-> r.rdSvcAlias,
                   certOK |-> TRUE, endpointOK |-> endpointOK, uploadOK |-> uploadOK]
    /\ UNCHANGED <<input, deployVars>>

NextAlias ==
    \/ \E certOK \in BOOLEAN : CheckHTTPAlias(certOK)
    \/ CheckNLBAlias
    \/ \E endpointOK \in BOOLEAN, uploadOK \in BOOLEAN : RDStackConfiguration(endpointOK, uploadOK)

SpecAlias == InitAlias /\ [][NextAlias]_vars

\* ------------------------------------------------ claims on alias validation
\* One of the three alias operations has been applied to the input row.
Checked(op) == output # <<>> /\ output.op = op

AliasSet == input # <<>> /\ input.alias # <<>>

BelowThreshold ==
    /\ input.ver.ok
    /\ semverCompare(input.ver.v, AliasLeastAppTemplateVersion) < 0

VersionAsked == \E i \in 1..Len(output.calls) : output.calls[i] = "Version"

\* C11 as stated: a non-empty HTTP or NLB alias with an application domain and
\* a version below the threshold fails with the incompatible-version error,
\* whatever the alias and whatever else holds.
C11_Original ==
    (/\ Checked("http") \/ Checked("nlb")
     /\ AliasSet
     /\ input.Domain # NoDomain
     /\ BelowThreshold)
    => output.err = ErrIncompatibleVersion

\* C11: when the environment imports no certificates, a non-empty HTTP or NLB
\* alias with an application domain and an application version below the
\* threshold fails with the incompatible-version error whatever the shape of
\* the alias; with imported certificates the version is not what fails.
C11_VersionBeforeShape ==
    (/\ Checked("http") \/ Checked("nlb")
     /\ AliasSet
     /\ input.Domain # NoDomain
     /\ BelowThreshold)
    => IF input.certs
       THEN output.err # ErrIncompatibleVersion
       ELSE output.err = ErrIncompatibleVersion /\ VersionAsked

\* An NLB alias outside the application's domain, rejected for the version.
C11_Witness ==
    /\ Checked("nlb")
    /\ input.alias = <<"v", ".", "v">>
    /\ input.Domain = mockDomain
    /\ ~input.certs
    /\ BelowThreshold
    /\ output.err = ErrIncompatibleVersion

\* C12 as stated: with imported certificates and an HTTP alias, a version
\* below the threshold makes the alias fail whether or not the certificate
\* covers it.
C12_Original ==
    (/\ Checked("http")
     /\ AliasSet
     /\ input.certs
     /\ BelowThreshold)
    => output.err # NoErr

\* C12: with imported certificates and an HTTP alias, the application version
\* is not consulted: the alias passes exactly when the certificate validator
\* accepts it, and a failure is the validator's.
C12_CertPathIgnoresVersion ==
    (/\ Checked("http")
     /\ AliasSet
     /\ input.certs)
    => /\ ~VersionAsked
       /\ output.calls = <<"ValidateCertAliases">>
       /\ (output.err = NoErr) <=> output.certOK
       /\ output.err \in {NoErr, ErrCertAliases}

\* A covered alias passes although the application is at v0.0.0.
C12_Witness ==
    /\ Checked("http")
    /\ AliasSet
    /\ input.certs
    /\ BelowThreshold
    /\ output.certOK
    /\ output.err = NoErr

\* C13: a non-empty alias of an application without a domain, in an
\* environment without imported certificates, fails with the workload kind's
\* domain-association error whatever the alias and whatever the version
\* getter would answer, and the version is never asked for.
C13_DomainBeforeVersion ==
    (/\ output # <<>>
     /\ AliasSet
     /\ input.Domain = NoDomain
     /\ ~input.certs
     /\ output.endpointOK)
    => /\ output.err = (CASE output.op = "http" -> ErrALBAliasNoDomain
                          [] output.op = "nlb"  -> ErrNLBAliasNoDomain
                          [] output.op = "rd"   -> ErrRDAliasNoDomain)
       /\ ~VersionAsked

\* An NLB alias without a domain while the version getter would fail.
C13_Witness ==
    /\ Checked("nlb")
    /\ input.alias = <<"v", ".", "d">>
    /\ input.Domain = NoDomain
    /\ ~input.certs
    /\ ~input.ver.ok
    /\ output.err = ErrNLBAliasNoDomain

\* ----------------------------------------------------- shapes of an alias
IsLabel(s) == s # <<>> /\ \A i \in 1..Len(s) : s[i] # "."

\* <label>.<rest>
LabelBefore(s, rest) ==
    \E k \in 1..Len(s) :
        /\ IsLabel(SubSeq(s, 1, k))
        /\ SubSeq(s, k + 1, Len(s)) = <<".">> \o rest

\* The text ends with the domain as a name does: it is the domain, or it
\* ends with a dot and the domain.
EndsInDomain(s, dom) ==
    \/ s = dom
    \/ /\ Len(s) > Len(dom)
       /\ SubSeq(s, Len(s) - Len(dom), Len(s)) = <<".">> \o dom

\* <label1>.<label2>.<dom> as the pair of its two labels (no pair for any
\* other text).
LabelPairs(s, dom) ==
    { <<SubSeq(s, 1, km[1]), SubSeq(s, km[1] + 2, km[2])>> :
        km \in { x \in (1..Len(s)) \X (1..Len(s)) :
                   /\ x[1] + 2 <= x[2]
                   /\ IsLabel(SubSeq(s, 1, x[1]))
                   /\ s[x[1] + 1] = "."
                   /\ IsLabel(SubSeq(s, x[1] + 2, x[2]))
                   /\ SubSeq(s, x[2] + 1, Len(s)) = <<".">> \o dom } }

Compatible ==
    /\ input.ver.ok
    /\ semverCompare(input.ver.v, AliasLeastAppTemplateVersion) >= 0

\* A load-balanced web service alias was validated in an environment without
\* imported certificates.
LBChecked == (Checked("http") \/ Checked("nlb")) /\ ~input.certs

\* The request-driven configuration was built with the endpoint resolved and
\* the upload, if reached, succeeding.
RDBuilt == Checked("rd") /\ output.endpointOK /\ output.uploadOK

\* The unsupported-hosted-zone error in the words of the workload kind.
ZoneErr == IF Checked("rd") THEN ErrUnmanagedZone ELSE ErrManagedZones

\* A request-driven build that stopped at the alias: the endpoint and the
\* version were asked, nothing was uploaded and no alias is configured.
StoppedAtAlias ==
    Checked("rd") => /\ output.calls = <<"ServiceDiscoveryEndpoint", "Version">>
                     /\ output.rdSvcAlias = <<>>

\* C14: every alias <single-label>.<appDomain>, whatever the label, validates
\* with a compatible application version, for an HTTP or NLB alias of a
\* load-balanced web service and for a request-driven web service, and the
\* request-driven configuration carries the alias unchanged.
C14_SingleLabelAlias ==
    (/\ LBChecked \/ RDBuilt
     /\ Compatible
     /\ input.Domain # NoDomain
     /\ LabelBefore(input.alias, input.Domain))
    => /\ output.err = NoErr
       /\ Checked("rd") => output.rdSvcAlias = input.alias

\* "v.d" at v1.0.0 reaches the upload and is carried into the configuration.
C14_Witness ==
    /\ RDBuilt
    /\ Compatible
    /\ input.alias = <<"v", ".", "d">>
    /\ input.Domain = mockDomain
    /\ output.err = NoErr
    /\ output.rdSvcAlias = <<"v", ".", "d">>
    /\ output.calls = <<"ServiceDiscoveryEndpoint", "Version",
                        "UploadRequestDrivenWebServiceCustomResources">>

\* C15: an alias equal to the application domain is rejected as a
\* root-domain alias by every alias validation with a compatible version,
\* and a request-driven build stops there.
C15_RootDomainAlias ==
    (/\ LBChecked \/ RDBuilt
     /\ Compatible
     /\ input.Domain # NoDomain
     /\ input.alias = input.Domain)
    => /\ output.err = ErrRootDomainAlias
       /\ StoppedAtAlias

\* The alias "d" of the domain "d" on a request-driven service.
C15_Witness ==
    /\ RDBuilt
    /\ Compatible
    /\ input.Domain = mockDomain
    /\ input.alias = mockDomain
    /\ output.err = ErrRootDomainAlias

\* C16: an alias that does not end in the application domain is rejected
\* with the workload kind's unsupported-hosted-zone error, never accepted
\* and never reported as root, environment-level or application-level.
C16_UnsupportedHostedZone ==
    (/\ LBChecked \/ RDBuilt
     /\ Compatible
     /\ AliasSet
     /\ input.Domain # NoDomain
     /\ ~EndsInDomain(input.alias, input.Domain))
    => /\ output.err = ZoneErr
       /\ StoppedAtAlias

\* "v.v", the shape of "v1.someRandomDomain", on a request-driven service.
C16_Witness ==
    /\ RDBuilt
    /\ Compatible
    /\ input.Domain = mockDomain
    /\ input.alias = <<"v", ".", "v">>
    /\ output.err = ErrUnmanagedZone
    /\ output.calls = <<"ServiceDiscoveryEndpoint", "Version">>

\* C17: the alias <env>.<app>.<domain>, whose label in front of
\* <app>.<domain> is the target environment's name, is rejected as an
\* environment-level alias, and a request-driven build stops there.
C17_EnvironmentLevelAlias ==
    (/\ LBChecked \/ RDBuilt
     /\ Compatible
     /\ input.Domain # NoDomain
     /\ input.alias = Join(input.envName, Join(mockAppName, input.Domain)))
    => /\ output.err = ErrEnvLevelAlias
       /\ StoppedAtAlias

\* "e.a.d" on a request-driven service of environment "e", application "a".
C17_Witness ==
    /\ RDBuilt
    /\ Compatible
    /\ input.Domain = mockDomain
    /\ input.envName = mockEnvName
    /\ input.alias = <<"e", ".", "a", ".", "d">>
    /\ output.err = ErrEnvLevelAlias

\* C18 as stated: the alias <envName>.<appDomain> fails as environment-level.
C18_Original ==
    (/\ LBChecked \/ RDBuilt
     /\ Compatible
     /\ input.Domain # NoDomain
     /\ input.alias = Join(input.envName, input.Domain))
    => output.err = ErrEnvLevelAlias

\* C18: the alias <envName>.<appDomain> carries one label in front of the
\* domain and is no environment-level alias: it validates, and the
\* request-driven configuration carries it; the alias that fails as
\* environment-level carries the application's name between the
\* environment's name and the domain.
C18_EnvNameAsLabel ==
    (/\ LBChecked \/ RDBuilt
     /\ Compatible
     /\ input.Domain # NoDomain)
    => /\ input.alias = Join(input.envName, input.Domain)
          => /\ output.err = NoErr
             /\ Checked("rd") => output.rdSvcAlias = input.alias
       /\ output.err = ErrEnvLevelAlias
          => input.alias = Join(input.envName, Join(mockAppName, input.Domain))

\* "e.d" in environment "e" passes on a request-driven service.
C18_Witness ==
    /\ RDBuilt
    /\ Compatible
    /\ input.Domain = mockDomain
    /\ input.envName = mockEnvName
    /\ input.alias = <<"e", ".", "d">>
    /\ output.err = NoErr
    /\ output.rdSvcAlias = <<"e", ".", "d">>

\* C19 as stated: <label1>.<label2>.<appDomain> with label1 not the
\* environment's name fails as application-level for every workload kind,
\* whatever label2 is.
C19_Original ==
    (/\ LBChecked \/ RDBuilt
     /\ Compatible
     /\ input.Domain # NoDomain)
    => \A p \in LabelPairs(input.alias, input.Domain) :
          p[1] # input.envName => output.err = ErrAppLevelAlias

\* C19: <label1>.<label2>.<appDomain> with label1 not the environment's name
\* fails as application-level when label2 is the application's name; with
\* any other label2 it fails with the workload kind's unsupported-hosted-zone
\* error.  Either way a request-driven build stops there.
C19_ApplicationLevelAlias ==
    (/\ LBChecked \/ RDBuilt
     /\ Compatible
     /\ input.Domain # NoDomain)
    => \A p \in LabelPairs(input.alias, input.Domain) :
          p[1] # input.envName =>
             /\ output.err = (IF p[2] = mockAppName THEN ErrAppLevelAlias ELSE ZoneErr)
             /\ StoppedAtAlias

\* "v.v.d", the shape of "v1.v2.mockDomain", as the HTTP alias of a
\* load-balanced web service.
C19_Witness ==
    /\ Checked("http")
    /\ ~input.certs
    /\ Compatible
    /\ input.Domain = mockDomain
    /\ input.alias = <<"v", ".", "v", ".", "d">>
    /\ output.err = ErrManagedZones

\* ------------------------------------------------------ topic subscriptions
\* A string with colons is the sequence of its colon-separated sections, and
\* a section is the sequence of its characters.
MaxSubs == 2
MaxARNs == 2

Dash == <<"-">>

\* fmt.Sprintf("%s-%s-%s-%s", app, env, service, topic)
resourceName(a, e, svc, topic) == a \o Dash \o e \o Dash \o svc \o Dash \o topic

RECURSIVE JoinSections(_)
\* strings.Join(sections, ":")
JoinSections(secs) ==
    IF secs = <<>> THEN <<>>
    ELSE IF Len(secs) = 1 THEN secs[1]
    ELSE secs[1] \o <<":">> \o JoinSections(Tail(secs))

ArnPrefix == <<"a", "r", "n">>
ArnSections == 6

\* arn.Parse: the "arn:" prefix, then SplitN into six sections, the sixth
\* taking the rest of the string.
arnParse(s) ==
    IF ~(Len(s) >= 2 /\ s[1] = ArnPrefix) THEN [ok |-> FALSE, Resource |-> <<>>]
    ELSE IF Len(s) < ArnSections THEN [ok |-> FALSE, Resource |-> <<>>]
    ELSE [ok |-> TRUE, Resource |-> JoinSections(SubSeq(s, ArnSections, Len(s)))]

\* The resources of the ARNs that parse.
validTopicResources(arns) ==
    { arnParse(arns[j]).Resource : j \in { k \in 1..Len(arns) : arnParse(arns[k]).ok } }

ErrTopicNotExist(name, e) == <<"SNS topic does not exist in environment", name, e>>

\* Variant: one deployed subscription is enough.
validateTopicsExist_anyPresent(subs, arns, a, e) ==
    IF subs = <<>>
       \/ \E i \in 1..Len(subs) :
            resourceName(a, e, subs[i].Service, subs[i].Name) \in validTopicResources(arns)
    THEN NoErr
    ELSE ErrTopicNotExist(resourceName(a, e, subs[1].Service, subs[1].Name), e)

\* Variant: the last missing subscription is the one reported.
validateTopicsExist_lastMissing(subs, arns, a, e) ==
    LET missing == { i \in 1..Len(subs) :
                       resourceName(a, e, subs[i].Service, subs[i].Name)
                           \notin validTopicResources(arns) }
    IN  IF missing = {} THEN NoErr
        ELSE LET i == CHOOSE m \in missing : \A n \in missing : m >= n
             IN  ErrTopicNotExist(resourceName(a, e, subs[i].Service, subs[i].Name), e)

\* validateTopicsExist: the first subscription, in the manifest's order, whose
\* resource name is not among the parsed resources is reported.
validateTopicsExist(subs, arns, a, e) ==
    LET missing == { i \in 1..Len(subs) :
                       resourceName(a, e, subs[i].Service, subs[i].Name)
                           \notin validTopicResources(arns) }
    IN  IF missing = {} THEN NoErr
        ELSE LET i == CHOOSE m \in missing : \A n \in missing : m <= n
             IN  ErrTopicNotExist(resourceName(a, e, subs[i].Service, subs[i].Name), e)

ErrListTopics == <<"get SNS topics for app and environment", SomeError>>

\* Variant: the subscriptions are not validated against the listed topics.
workerStackConfiguration_noValidation(subs, arns, a, e, endpointOK, listOK) ==
    IF ~endpointOK THEN
        [err |-> <<"get service discovery endpoint", SomeError>>,
         calls |-> <<"ServiceDiscoveryEndpoint">>, built |-> FALSE, subscriptions |-> <<>>]
    ELSE IF ~listOK THEN
        [err |-> ErrListTopics,
         calls |-> <<"ServiceDiscoveryEndpoint", "ListSNSTopics">>,
         built |-> FALSE, subscriptions |-> <<>>]
    ELSE
        [err |-> NoErr,
         calls |-> <<"ServiceDiscoveryEndpoint", "ListSNSTopics">>,
         built |-> TRUE, subscriptions |-> subs]

\* workerSvcDeployer.stackConfiguration.  arns are the ARNs of the topics the
\* lister returns if it is asked and succeeds.
workerStackConfiguration(subs, arns, a, e, endpointOK, listOK) ==
    IF ~endpointOK THEN
        [err |-> <<"get service discovery endpoint", SomeError>>,
         calls |-> <<"ServiceDiscoveryEndpoint">>, built |-> FALSE, subscriptions |-> <<>>]
    ELSE IF ~listOK THEN
        [err |-> ErrListTopics,
         calls |-> <<"ServiceDiscoveryEndpoint", "ListSNSTopics">>,
         built |-> FALSE, subscriptions |-> <<>>]
    ELSE IF validateTopicsExist(subs, arns, a, e) # NoErr THEN
        [err |-> validateTopicsExist(subs, arns, a, e),
         calls |-> <<"ServiceDiscoveryEndpoint", "ListSNSTopics">>,
         built |-> FALSE, subscriptions |-> <<>>]
    ELSE
        [err |-> NoErr,
         calls |-> <<"ServiceDiscoveryEndpoint", "ListSNSTopics">>,
         built |-> TRUE, subscriptions |-> subs]

\* Service and topic names, with and without a dash of their own.
TopicServiceNames == { <<"s">>, <<"s", "-", "t">> }
TopicNames == { <<"t">>, <<"t", "-", "t">> }
TopicSubscriptions == [Service : TopicServiceNames, Name : TopicNames]

ArnHead == <<ArnPrefix, <<"w">>, <<"q">>, <<"r">>, <<"n">>>>

\* Application and environment names, with and without a dash of their own.
TopicOwners ==
    { [app |-> <<"a">>, env |-> <<"e">>],
      [app |-> <<"a">>, env |-> <<"x">>],
      [app |-> <<"a">>, env |-> <<"e", "-", "x">>],
      [app |-> <<"a", "-", "e">>, env |-> <<"x">>] }

\* The calls: validateTopicsExist(subs, arns, app, env) for these app, env.
TopicTargets ==
    { [app |-> <<"a">>, env |-> <<"e">>],
      [app |-> <<"a">>, env |-> <<"e", "-", "x">>] }

\* What the lister may return: a topic of some service of some environment,
\* as its ARN ("arn"), as an ARN whose resource has a colon of its own
\* ("colon"), or as a string that is not an ARN: no prefix ("noprefix"), too
\* few sections ("short"), the bare name ("bare").
DeployedTopics ==
    [owner : TopicOwners, Service : {<<"s">>}, Name : {<<"t">>}, form : {"arn"}]
    \cup [owner : {[app |-> <<"a">>, env |-> <<"e">>]},
          Service : TopicServiceNames, Name : TopicNames, form : {"arn"}]
    \cup [owner : {[app |-> <<"a">>, env |-> <<"e">>]},
          Service : {<<"s">>}, Name : {<<"t">>},
          form : {"colon", "noprefix", "short", "bare"}]

topicResource(t) == resourceName(t.owner.app, t.owner.env, t.Service, t.Name)

\* The string the lister returns for the topic.
topicARN(t) ==
    CASE t.form = "arn"      -> ArnHead \o <<topicResource(t)>>
      [] t.form = "colon"    -> ArnHead \o <<<<"x">>, topicResource(t)>>
      [] t.form = "noprefix" -> <<<<"w">>>> \o Tail(ArnHead) \o <<topicResource(t)>>
      [] t.form = "short"    -> SubSeq(ArnHead, 1, 4) \o <<topicResource(t)>>
      [] t.form = "bare"     -> <<topicResource(t)>>

SeqsUpTo(S, n) == UNION { [1..k -> S] : k \in 0..n }

InitTopics ==
    /\ IdleDeployer
    /\ input \in [subs : SeqsUpTo(TopicSubscriptions, MaxSubs),
                  topics : SeqsUpTo(DeployedTopics, MaxARNs),
                  target : TopicTargets]
    /\ output = <<>>

\* inTopicARNs
inARNs == [j \in 1..Len(input.topics) |-> topicARN(input.topics[j])]

ValidateTopicsExist ==
    /\ output = <<>>
    /\ output' = [op  |-> "topics",
                  err |-> validateTopicsExist(input.subs, inARNs,
                                              input.target.app, input.target.env),
                  calls |-> <<>>, built |-> FALSE, subscriptions |-> <<>>,
                  endpointOK |-> TRUE, listOK |-> TRUE]
    /\ UNCHANGED <<input, deployVars>>

\* The subscriptions are those of a worker service's manifest.
WorkerStackConfiguration(endpointOK, listOK) ==
    /\ output = <<>>
    /\ LET r == workerStackConfiguration(input.subs, inARNs, input.target.app,
                                         input.target.env, endpointOK, listOK) IN
        output' = [op |-> "worker", err |-> r.err, calls |-> r.calls, built |-> r.built,
                   subscriptions |-> r.subscriptions,
                   endpointOK |-> endpointOK, listOK |-> listOK]
    /\ UNCHANGED <<input, deployVars>>

NextTopics ==
    \/ ValidateTopicsExist
    \/ \E endpointOK \in BOOLEAN, listOK \in BOOLEAN :
          WorkerStackConfiguration(endpointOK, listOK)

SpecTopics == InitTopics /\ [][NextTopics]_vars

\* The ARN is a six-section ARN whose last section is the name.
IsTopicARNFor(s, name) ==
    /\ Len(s) = ArnSections
    /\ s[1] = ArnPrefix
    /\ s[ArnSections] = name

\* Each subscription has an ARN of its resource name among the deployed ones.
AllDeployed ==
    \A i \in 1..Len(input.subs) :
        \E j \in 1..Len(inARNs) :
            IsTopicARNFor(inARNs[j],
                          resourceName(input.target.app, input.target.env,
                                       input.subs[i].Service, input.subs[i].Name))

\* C20: validateTopicsExist returns no error exactly when every subscription's
\* resource name app-env-service-topic is the resource of a deployed ARN; an
\* empty subscription list is valid whatever the deployed ARNs.
C20_TopicsExist ==
    Checked("topics")
    => /\ (output.err = NoErr) <=> AllDeployed
       /\ input.subs = <<>> => output.err = NoErr

\* Two subscriptions with different resource names, both deployed.
C20_Witness ==
    /\ Checked("topics")
    /\ Len(input.subs) = 2
    /\ input.subs[1] # input.subs[2]
    /\ Len(input.topics) = 2
    /\ output.err = NoErr

\* The resource name validateTopicsExist is to look for, for subscription i.
subName(i) ==
    resourceName(input.target.app, input.target.env,
                 input.subs[i].Service, input.subs[i].Name)

SubDeployed(i) == \E j \in 1..Len(inARNs) : IsTopicARNFor(inARNs[j], subName(i))

\* C21: when subscriptions are missing, validateTopicsExist reports exactly
\* one of them, the first missing one in the order of the subscriptions, by
\* its name app-env-service-topic and the environment.
C21_FirstMissingTopic ==
    Checked("topics")
    => \A i \in 1..Len(input.subs) :
          (~SubDeployed(i) /\ \A k \in 1..(i - 1) : SubDeployed(k))
          => output.err = ErrTopicNotExist(subName(i), input.target.env)

\* Two subscriptions with different names are both missing; the first is
\* the one named.
C21_Witness ==
    /\ Checked("topics")
    /\ Len(input.subs) = 2
    /\ ~SubDeployed(1)
    /\ ~SubDeployed(2)
    /\ subName(1) # subName(2)
    /\ output.err = ErrTopicNotExist(subName(1), input.target.env)

\* Topic t is the topic the subscription i names, deployed where the call
\* is aimed.
TopicOfSub(t, i) ==
    /\ t.Service = input.subs[i].Service
    /\ t.Name = input.subs[i].Name
    /\ t.owner = input.target

\* C22 as stated: a subscription whose service and topic name are deployed
\* only in another environment or application makes validateTopicsExist fail.
C22_Original ==
    Checked("topics")
    => \A i \in 1..Len(input.subs) :
          (/\ \E j \in 1..Len(input.topics) :
                 /\ input.topics[j].Service = input.subs[i].Service
                 /\ input.topics[j].Name = input.subs[i].Name
           /\ \A j \in 1..Len(input.topics) : ~TopicOfSub(input.topics[j], i))
          => output.err # NoErr

\* C30: a worker service's stack configuration is produced only if the topic
\* listing succeeded and every subscription is among the listed topics; a
\* listing failure is returned wrapped with the application and environment,
\* with no configuration; a produced configuration has exactly the manifest's
\* subscriptions.
C30_WorkerSubscriptions ==
    Checked("worker")
    => /\ output.built <=> output.err = NoErr
       /\ output.built => /\ output.endpointOK
                          /\ output.listOK
                          /\ AllDeployed
                          /\ output.subscriptions = input.subs
       /\ (output.endpointOK /\ ~output.listOK)
            => /\ output.err = ErrListTopics
               /\ ~output.built
       /\ (output.endpointOK /\ output.listOK /\ ~AllDeployed) => output.err # NoErr

\* A worker with two subscriptions, both listed, gets its configuration.
C30_Witness ==
    /\ Checked("worker")
    /\ Len(input.subs) = 2
    /\ input.subs[1] # input.subs[2]
    /\ output.built
    /\ output.subscriptions = input.subs
    /\ output.calls = <<"ServiceDiscoveryEndpoint", "ListSNSTopics">>

\* ------------------------------------------- the three kinds side by side
\* A load-balanced web service goes through DeployWorkload; a request-driven
\* web service and a worker service build their stack configuration.
IsDeployRun == input = <<>>
IsAliasRow == input # <<>> /\ "alias" \in DOMAIN input
IsTopicsRow == input # <<>> /\ "subs" \in DOMAIN input

InitKinds == Init \/ InitAlias \/ InitTopics

NextKinds ==
    \/ IsDeployRun /\ Next
    \/ IsAliasRow /\ NextAlias
    \/ IsTopicsRow /\ NextTopics

SpecKinds == InitKinds /\ [][NextKinds]_vars

\* The collaborator calls made so far by the build under way or finished.
buildCalls ==
    IF IsDeployRun THEN calls
    ELSE IF output = <<>> THEN <<>>
    ELSE output.calls

\* The error the build ended with, NoErr while it has not failed.
buildErr ==
    IF IsDeployRun THEN err
    ELSE IF output = <<>> THEN NoErr
    ELSE output.err

\* A stack configuration was built by a whole stackConfiguration call.
IsBuild == Checked("rd") \/ Checked("worker") \/ (IsDeployRun /\ calls # <<>>)

\* C27: for the three workload kinds, ServiceDiscoveryEndpoint is the first
\* collaborator called by a build; when it fails the build fails with that
\* cause and it stays the only call.
C27_EndpointFirst ==
    IsBuild
    => /\ buildCalls # <<>>
       /\ buildCalls[1] = "ServiceDiscoveryEndpoint"
       /\ \A i \in 2..Len(buildCalls) : buildCalls[i] # "ServiceDiscoveryEndpoint"
       /\ buildErr = ErrEndpoint => buildCalls = <<"ServiceDiscoveryEndpoint">>
       /\ (~IsDeployRun /\ ~output.endpointOK)
            => buildErr = ErrEndpoint /\ buildCalls = <<"ServiceDiscoveryEndpoint">>

\* A worker whose endpoint cannot be resolved: the lister is not asked.
C27_Witness ==
    /\ Checked("worker")
    /\ ~output.endpointOK
    /\ Len(input.subs) = 1
    /\ output.err = ErrEndpoint
    /\ output.calls = <<"ServiceDiscoveryEndpoint">>

ErrPublicCIDRBlocks ==
    <<"get public CIDR blocks information from the VPC of environment", SomeError>>
ErrGetVersion == <<"get version for app", SomeError>>

\* The errors a stack configuration build can end with.
BuildFailures ==
    { ErrEndpoint, ErrCertAliases, ErrNoALBAliasWithImportedCerts, ErrALBAliasNoDomain,
      ErrNLBAliasImportedCerts, ErrNLBAliasNoDomain, ErrGetVersion, ErrIncompatibleVersion,
      ErrManagedZones, ErrPublicCIDRBlocks }

BackendCalls == {"DeployService", "LastUpdatedAt", "ForceUpdateService"}

NoBackendCall == \A i \in 1..Len(calls) : calls[i] \notin BackendCalls

\* C26: a DeployWorkload whose stack configuration build failed has returned
\* that error without calling DeployService, LastUpdatedAt or
\* ForceUpdateService, and the backend is called only after every build step
\* passed; a failed request-driven or worker build returns no configuration.
C26_BuildFailureIsFatal ==
    /\ IsDeployRun =>
         /\ err \in BuildFailures =>
              /\ pc = "done"
              /\ NoBackendCall
              /\ submitted = "none"
              /\ stackOpts = <<>>
         /\ pc \in {"runtimeConfig", "validateALBRuntime", "validateNLBRuntime",
                    "publicCIDRBlocks"} => err = NoErr /\ NoBackendCall
         /\ \A i \in 1..Len(history) :
               history[i].err \in BuildFailures
               => history[i].submitted = "none" /\ history[i].forced = 0
    /\ Checked("rd") =>
         /\ output.err # NoErr => output.rdSvcAlias = <<>>
         /\ output.err = NoErr => (~output.uploadOK => input.alias = <<>>)
    /\ Checked("worker") =>
         /\ output.err # NoErr => ~output.built /\ output.subscriptions = <<>>

\* A load-balanced web service whose CIDR query failed: nothing was submitted.
C26_Witness ==
    /\ IsDeployRun
    /\ pc = "done"
    /\ err = ErrPublicCIDRBlocks
    /\ lbMft.aliases # <<>>
    /\ NoBackendCall
    /\ submitted = "none"

\* The alias lies in none of the application's hosted zones.
OutsideZones == aliasScope(input.alias, input.envName, inApp) = "outside"

\* C28 as stated: with imported certificates, an HTTP alias that fails the
\* alias rules fails the build even if the certificate validator accepts it.
C28_Original ==
    (/\ Checked("http")
     /\ AliasSet
     /\ input.certs
     /\ input.Domain # NoDomain
     /\ Compatible
     /\ OutsideZones
     /\ output.certOK)
    => output.err # NoErr

\* C28: with imported certificates the HTTP aliases are handed to the
\* certificate validator and to nothing else: an alias the validator accepts
\* passes even if it lies outside the application's domain or the application
\* has no domain, and the alias rules are applied only without imported
\* certificates.
C28_CertValidatorOnly ==
    (Checked("http") /\ AliasSet)
    => /\ (input.certs /\ output.certOK)
            => output.err = NoErr /\ output.calls = <<"ValidateCertAliases">>
       /\ (~input.certs /\ input.Domain # NoDomain /\ Compatible /\ OutsideZones)
            => output.err = ErrManagedZones /\ output.calls = <<"Version">>

\* "v.v" is outside the domain "d" and passes on the certificate's word.
C28_Witness ==
    /\ Checked("http")
    /\ input.alias = <<"v", ".", "v">>
    /\ input.Domain = mockDomain
    /\ input.certs
    /\ Compatible
    /\ output.certOK
    /\ output.err = NoErr

\* The build steps that come before the CIDR query.
ValidationCalls == {"ServiceDiscoveryEndpoint", "Version", "ValidateCertAliases"}

\* C29: PublicCIDRBlocks is asked only for a manifest whose NLB declares a
\* port, once, after the endpoint was resolved and both alias validations
\* passed, and before anything is submitted; when it fails DeployWorkload
\* ends with the error naming the environment and nothing is submitted.
C29_PublicCIDRBlocks ==
    /\ Called("PublicCIDRBlocks") =>
         /\ lbMft.nlbPort
         /\ Count(calls, "PublicCIDRBlocks") = 1
         /\ \A i \in 1..Len(calls) : \A j \in 1..Len(calls) :
               (calls[i] = "PublicCIDRBlocks" /\ calls[j] \in ValidationCalls) => j < i
         /\ \A i \in 1..Len(calls) : \A j \in 1..Len(calls) :
               (calls[i] = "PublicCIDRBlocks" /\ calls[j] \in BackendCalls) => i < j
         /\ lbMft.aliases # <<>> => (HasImportedCerts(env) \/ app.Domain # NoDomain)
         /\ lbMft.aliases = <<>> => ~HasImportedCerts(env)
         /\ lbMft.nlbAliases # <<>> => (~HasImportedCerts(env) /\ app.Domain # NoDomain)
    /\ err = ErrPublicCIDRBlocks =>
         /\ pc = "done"
         /\ calls[Len(calls)] = "PublicCIDRBlocks"
         /\ NoBackendCall
         /\ submitted = "none"
    /\ (pc \in {"deploy", "lastUpdatedAt", "forceDeploy"} /\ lbMft.nlbPort)
         => Called("PublicCIDRBlocks")

\* The query fails for a manifest with a port and a valid NLB alias.
C29_Witness ==
    /\ pc = "done"
    /\ err = ErrPublicCIDRBlocks
    /\ lbMft.nlbPort
    /\ lbMft.nlbAliases # <<>>
    /\ Called("Version")
    /\ ~Called("DeployService")

\* --------------------------------------------------- environment template
MaxCerts == 3
MaxSubnets == 2

\* Variant: the range renders a ListenerCertificate for the first ARN as well.
renderEnv_everyCertResource(o) ==
    LET certs == o.ImportCertARNs
        imported == o.VPCConfig.Imported
        R(name) == [n |-> name, i |-> 0, arn |-> ""]
        mountTargets == [k \in 1..o.VPCConfig.PrivateSubnets |->
                            [n |-> "MountTarget", i |-> k, arn |-> ""]]
        importCerts == [k \in 1..Len(certs) |->
                            [n |-> "HTTPSImportCertificate", i |-> k, arn |-> certs[k]]]
    IN  [ listenerCert |-> IF certs # <<>> THEN certs[1] ELSE "!Ref HTTPSCert",
          resources |->
              (IF ~imported THEN <<R("include vpc-resources"), R("include nat-gateways")>>
               ELSE <<>>)
              \o <<R("ServiceDiscoveryNamespace"), R("Cluster"),
                   R("PublicLoadBalancerSecurityGroup"), R("EnvironmentSecurityGroup"),
                   R("EnvironmentSecurityGroupIngressFromPublicALB"),
                   R("EnvironmentSecurityGroupIngressFromSelf"), R("PublicLoadBalancer"),
                   R("DefaultHTTPTargetGroup"), R("HTTPListener"), R("HTTPSListener")>>
              \o importCerts
              \o <<R("FileSystem"), R("EFSSecurityGroup"),
                   R("EFSSecurityGroupIngressFromEnvironment")>>
              \o mountTargets
              \o <<R("include cfn-execution-role"), R("include environment-manager-role")>>
              \o (IF certs = <<>>
                  THEN <<R("include custom-resources-role"), R("EnvironmentHostedZone"),
                         R("include lambdas"), R("include custom-resources")>>
                  ELSE <<>>),
          outputs |->
              <<"VpcId">>
              \o (IF ~imported THEN <<"PublicSubnets">>
                  ELSE IF o.VPCConfig.PublicSubnets # 0 THEN <<"PublicSubnets">> ELSE <<>>)
              \o (IF ~imported THEN <<"PrivateSubnets">>
                  ELSE IF o.VPCConfig.PrivateSubnets # 0 THEN <<"PrivateSubnets">> ELSE <<>>)
              \o (IF ~imported THEN <<"InternetGatewayID">> ELSE <<>>)
              \o (IF ~imported THEN <<"PublicRouteTableID">> ELSE <<>>)
              \o <<"ServiceDiscoveryNamespaceID", "EnvironmentSecurityGroup",
                   "PublicLoadBalancerDNSName", "PublicLoadBalancerFullName",
                   "PublicLoadBalancerHostedZone", "HTTPListenerArn", "HTTPSListenerArn",
                   "DefaultHTTPTargetGroupArn", "ClusterId", "EnvironmentManagerRoleARN",
                   "CFNExecutionRoleARN">>
              \o (IF certs = <<>>
                  THEN <<"EnvironmentHostedZone", "EnvironmentSubdomain">>
                  ELSE <<>>)
              \o <<"EnabledFeatures", "ManagedFileSystemID">> ]

\* Variant: the hosted zone outputs are rendered whatever the certificates.
renderEnv_zoneOutputsAlways(o) ==
    LET certs == o.ImportCertARNs
        imported == o.VPCConfig.Imported
        R(name) == [n |-> name, i |-> 0, arn |-> ""]
        mountTargets == [k \in 1..o.VPCConfig.PrivateSubnets |->
                            [n |-> "MountTarget", i |-> k, arn |-> ""]]
        importCerts == [k \in 1..(Len(certs) - 1) |->
                            [n |-> "HTTPSImportCertificate", i |-> k + 1, arn |-> certs[k + 1]]]
    IN  [ listenerCert |-> IF certs # <<>> THEN certs[1] ELSE "!Ref HTTPSCert",
          resources |->
              (IF ~imported THEN <<R("include vpc-resources"), R("include nat-gateways")>>
               ELSE <<>>)
              \o <<R("ServiceDiscoveryNamespace"), R("Cluster"),
                   R("PublicLoadBalancerSecurityGroup"), R("EnvironmentSecurityGroup"),
                   R("EnvironmentSecurityGroupIngressFromPublicALB"),
                   R("EnvironmentSecurityGroupIngressFromSelf"), R("PublicLoadBalancer"),
                   R("DefaultHTTPTargetGroup"), R("HTTPListener"), R("HTTPSListener")>>
              \o importCerts
              \o <<R("FileSystem"), R("EFSSecurityGroup"),
                   R("EFSSecurityGroupIngressFromEnvironment")>>
              \o mountTargets
              \o <<R("include cfn-execution-role"), R("include environment-manager-role")>>
              \o (IF certs = <<>>
                  THEN <<R("include custom-resources-role"), R("EnvironmentHostedZone"),
                         R("include lambdas"), R("include custom-resources")>>
                  ELSE <<>>),
          outputs |->
              <<"VpcId">>
              \o (IF ~imported THEN <<"PublicSubnets">>
                  ELSE IF o.VPCConfig.PublicSubnets # 0 THEN <<"PublicSubnets">> ELSE <<>>)
              \o (IF ~imported THEN <<"PrivateSubnets">>
                  ELSE IF o.VPCConfig.PrivateSubnets # 0 THEN <<"PrivateSubnets">> ELSE <<>>)
              \o (IF ~imported THEN <<"InternetGatewayID">> ELSE <<>>)
              \o (IF ~imported THEN <<"PublicRouteTableID">> ELSE <<>>)
              \o <<"ServiceDiscoveryNamespaceID", "EnvironmentSecurityGroup",
                   "PublicLoadBalancerDNSName", "PublicLoadBalancerFullName",
                   "PublicLoadBalancerHostedZone", "HTTPListenerArn", "HTTPSListenerArn",
                   "DefaultHTTPTargetGroupArn", "ClusterId", "EnvironmentManagerRoleARN",
                   "CFNExecutionRoleARN">>
              \o (<<"EnvironmentHostedZone", "EnvironmentSubdomain">>)
              \o <<"EnabledFeatures", "ManagedFileSystemID">> ]

\* The environment template executed on its options: the logical names of
\* the resources and of the outputs in the order they are rendered, and the
\* certificate of the HTTPS listener.  A numbered resource carries its
\* number ({{inc $ind}}); an included sub-template stands as one entry.
renderEnv(o) ==
    LET certs == o.ImportCertARNs
        imported == o.VPCConfig.Imported
        R(name) == [n |-> name, i |-> 0, arn |-> ""]
        mountTargets == [k \in 1..o.VPCConfig.PrivateSubnets |->
                            [n |-> "MountTarget", i |-> k, arn |-> ""]]
        importCerts == [k \in 1..(Len(certs) - 1) |->
                            [n |-> "HTTPSImportCertificate", i |-> k + 1, arn |-> certs[k + 1]]]
    IN  [ listenerCert |-> IF certs # <<>> THEN certs[1] ELSE "!Ref HTTPSCert",
          resources |->
              (IF ~imported THEN <<R("include vpc-resources"), R("include nat-gateways")>>
               ELSE <<>>)
              \o <<R("ServiceDiscoveryNamespace"), R("Cluster"),
                   R("PublicLoadBalancerSecurityGroup"), R("EnvironmentSecurityGroup"),
                   R("EnvironmentSecurityGroupIngressFromPublicALB"),
                   R("EnvironmentSecurityGroupIngressFromSelf"), R("PublicLoadBalancer"),
                   R("DefaultHTTPTargetGroup"), R("HTTPListener"), R("HTTPSListener")>>
              \o importCerts
              \o <<R("FileSystem"), R("EFSSecurityGroup"),
                   R("EFSSecurityGroupIngressFromEnvironment")>>
              \o mountTargets
              \o <<R("include cfn-execution-role"), R("include environment-manager-role")>>
              \o (IF certs = <<>>
                  THEN <<R("include custom-resources-role"), R("EnvironmentHostedZone"),
                         R("include lambdas"), R("include custom-resources")>>
                  ELSE <<>>),
          outputs |->
              <<"VpcId">>
              \o (IF ~imported THEN <<"PublicSubnets">>
                  ELSE IF o.VPCConfig.PublicSubnets # 0 THEN <<"PublicSubnets">> ELSE <<>>)
              \o (IF ~imported THEN <<"PrivateSubnets">>
                  ELSE IF o.VPCConfig.PrivateSubnets # 0 THEN <<"PrivateSubnets">> ELSE <<>>)
              \o (IF ~imported THEN <<"InternetGatewayID">> ELSE <<>>)
              \o (IF ~imported THEN <<"PublicRouteTableID">> ELSE <<>>)
              \o <<"ServiceDiscoveryNamespaceID", "EnvironmentSecurityGroup",
                   "PublicLoadBalancerDNSName", "PublicLoadBalancerFullName",
                   "PublicLoadBalancerHostedZone", "HTTPListenerArn", "HTTPSListenerArn",
                   "DefaultHTTPTargetGroupArn", "ClusterId", "EnvironmentManagerRoleARN",
                   "CFNExecutionRoleARN">>
              \o (IF certs = <<>>
                  THEN <<"EnvironmentHostedZone", "EnvironmentSubdomain">>
                  ELSE <<>>)
              \o <<"EnabledFeatures", "ManagedFileSystemID">> ]

CertARNs == {"mockCertARN1", "mockCertARN2"}

EnvOpts ==
    [ImportCertARNs : SeqsUpTo(CertARNs, MaxCerts),
     VPCConfig : [Imported : BOOLEAN, PublicSubnets : 0..1, PrivateSubnets : 0..MaxSubnets]]

InitEnv ==
    /\ IdleDeployer
    /\ input \in [opts : EnvOpts]
    /\ output = <<>>

\* The template is parsed and executed.
ParseEnv ==
    /\ output = <<>>
    /\ LET r == renderEnv(input.opts) IN
        output' = [op |-> "env", resources |-> r.resources, outputs |-> r.outputs,
                   listenerCert |-> r.listenerCert]
    /\ UNCHANGED <<input, deployVars>>

NextEnv == ParseEnv

SpecEnv == InitEnv /\ [][NextEnv]_vars

HasResource(name) == \E k \in 1..Len(output.resources) : output.resources[k].n = name
HasOutput(name) == \E k \in 1..Len(output.outputs) : output.outputs[k] = name

\* C25: the environment's hosted zone, the role, lambdas and custom resources
\* of its DNS, and the EnvironmentHostedZone and EnvironmentSubdomain outputs
\* are rendered exactly when no certificate is imported.
C25_HostedZoneWithoutImportedCerts ==
    Checked("env")
    => /\ \A name \in {"EnvironmentHostedZone", "include custom-resources-role",
                       "include lambdas", "include custom-resources"} :
             HasResource(name) <=> input.opts.ImportCertARNs = <<>>
       /\ \A name \in {"EnvironmentHostedZone", "EnvironmentSubdomain"} :
             HasOutput(name) <=> input.opts.ImportCertARNs = <<>>

\* Two imported certificates: neither the zone nor its outputs are rendered.
C25_Witness ==
    /\ Checked("env")
    /\ Len(input.opts.ImportCertARNs) = 2
    /\ ~HasResource("EnvironmentHostedZone")
    /\ ~HasOutput("EnvironmentSubdomain")
    /\ HasResource("HTTPSListener")

\* --------------------------------- the stability wait of a forced update
MaxTries == 3

\* The wait gives up once it has polled the service max times ("max retries
\* <n> exceeded" of ErrWaitServiceStableTimeout).
pollLimitReached(tries, max) == tries >= max

\* A deployer before its call; its force updater waits for at most wait.max
\* polls. No cancellation has been signalled.
InitWait ==
    /\ lbMft \in { m \in Manifests : m.aliases = <<>> /\ m.nlbAliases = <<>> }
    /\ app = [Name |-> mockAppName, Domain |-> NoDomain]
    /\ env = [Name |-> mockEnvName, ImportCertARNs |-> <<>>]
    /\ stackUpToDate \in BOOLEAN
    /\ pc = "idle"
    /\ opts = [ForceNewUpdate |-> FALSE, DisableRollback |-> FALSE]
    /\ calls = <<>>
    /\ err = NoErr
    /\ cmdRunAt = NoTime
    /\ submitted = "none"
    /\ lastUpdatedAt = NoTime
    /\ stackOpts = <<>>
    /\ spinner = "none"
    /\ history = <<>>
    /\ input = <<>>
    /\ output = <<>>
    /\ wait \in [max : 0..MaxTries, tries : {0}, cancelled : {FALSE}]

\* The steps of DeployWorkload up to the decision to force an update.
StepBeforeForce ==
    \/ \E force \in BOOLEAN, rollback \in BOOLEAN : DeployWorkload(force, rollback)
    \/ \E ok \in BOOLEAN : RuntimeConfig(ok)
    \/ \E certOK \in BOOLEAN, ver \in VersionAnswers : ValidateALBRuntime(certOK, ver)
    \/ \E ver \in VersionAnswers : ValidateNLBRuntime(ver)
    \/ \E ok \in BOOLEAN : PublicCIDRBlocks(ok)
    \/ \E t \in Times, resp \in {"ok", "empty", "error"} : Deploy(t, resp)
    \/ \E ok \in BOOLEAN, t \in Times : LastUpdatedAt(ok, t)

\* forceDeploy calls ForceUpdateService(mockAppName, mockEnvName, mockName):
\* three names and nothing else, on every row that expects the call.  The
\* update request is sent, and when it is accepted the collaborator starts
\* to wait for the service to be stable.
ForceUpdateService(ok) ==
    /\ pc = "forceDeploy"
    /\ calls' = Append(calls, "ForceUpdateService")
    /\ IF ok
       THEN pc' = "waitStable" /\ UNCHANGED <<err, spinner>>
       ELSE /\ err' = forceDeploy("error").err
            /\ spinner' = forceDeploy("error").spinner
            /\ pc' = "done"
    /\ UNCHANGED <<fnVars, deployerVars, stackUpToDate, opts, cmdRunAt, submitted,
                   lastUpdatedAt, stackOpts, history>>

\* One poll of the service inside the wait: it is stable, not yet stable, or
\* the poll fails.  The wait runs inside ForceUpdateService and knows what
\* that call was given: the three names.  No argument carries a signal of
\* the caller, so the poll does not depend on wait.cancelled.
PollStable(answer) ==
    /\ pc = "waitStable"
    /\ ~pollLimitReached(wait.tries, wait.max)
    /\ wait' = [wait EXCEPT !.tries = @ + 1]
    /\ CASE answer = "stable" ->
              /\ err' = forceDeploy("ok").err
              /\ spinner' = forceDeploy("ok").spinner
              /\ pc' = "done"
         [] answer = "error" ->
              /\ err' = forceDeploy("error").err
              /\ spinner' = forceDeploy("error").spinner
              /\ pc' = "done"
         [] OTHER -> UNCHANGED <<err, spinner, pc>>
    /\ UNCHANGED <<input, output, deployerVars, stackUpToDate, opts, calls,
                   cmdRunAt, submitted, lastUpdatedAt, stackOpts, history>>

\* The wait gives up: ForceUpdateService answers ErrWaitServiceStableTimeout.
WaitTimeout ==
    /\ pc = "waitStable"
    /\ pollLimitReached(wait.tries, wait.max)
    /\ err' = forceDeploy("timeout").err
    /\ spinner' = forceDeploy("timeout").spinner
    /\ pc' = "done"
    /\ UNCHANGED <<fnVars, deployerVars, stackUpToDate, opts, calls, cmdRunAt,
                   submitted, lastUpdatedAt, stackOpts, history>>

\* The caller of a running DeployWorkload signals a cancellation.  The call
\* was entered as DeployWorkload(&DeployWorkloadInput{Options: ...}) and hands
\* ForceUpdateService three names: there is no context, channel or flag
\* through which a step of the call could learn of the signal, which is
\* recorded here and read by nothing.
Cancel ==
    /\ pc \notin {"idle", "done"}
    /\ ~wait.cancelled
    /\ wait' = [wait EXCEPT !.cancelled = TRUE]
    /\ UNCHANGED <<input, output, deployerVars, stackUpToDate, pc, opts,
                   calls, err, cmdRunAt, submitted, lastUpdatedAt, stackOpts,
                   spinner, history>>

\* A step of the call in progress.
RunningStep ==
    \/ pc # "idle" /\ StepBeforeForce
    \/ \E ok \in BOOLEAN : ForceUpdateService(ok)
    \/ \E answer \in {"stable", "pending", "error"} : PollStable(answer)
    \/ WaitTimeout

NextWait ==
    \/ StepBeforeForce
    \/ \E ok \in BOOLEAN : ForceUpdateService(ok)
    \/ \E answer \in {"stable", "pending", "error"} : PollStable(answer)
    \/ WaitTimeout
    \/ Cancel

\* A call in progress keeps running: every collaborator answers, and the
\* goroutine of the call is scheduled again.
SpecWait == InitWait /\ [][NextWait]_vars /\ WF_vars(RunningStep)

UploadCall == "UploadRequestDrivenWebServiceCustomResources"

\* C31: a request-driven web service uploads its custom resources only when
\* the application has a domain, its version is compatible and the alias has
\* a supported shape inside the application's hosted zone, and then as the
\* last call, after Version; when any of these checks fails nothing is
\* uploaded; and a failed upload ends stackConfiguration with the wrapped
\* upload error and no configuration.
C31_UploadAfterValidation ==
    Checked("rd") =>
        LET uploaded == Count(output.calls, UploadCall) > 0
            valid == /\ input.alias # <<>>
                     /\ input.Domain # NoDomain
                     /\ validateAppVersionForAlias(input.ver) = NoErr
                     /\ aliasScope(input.alias, input.envName, inApp) = "service"
        IN  /\ uploaded => /\ valid
                           /\ output.calls = <<"ServiceDiscoveryEndpoint", "Version", UploadCall>>
            /\ (input.alias # <<>> /\ ~valid) =>
                  ~uploaded /\ output.err # NoErr /\ output.rdSvcAlias = <<>>
            /\ (output.endpointOK /\ valid) => uploaded
            /\ (uploaded /\ ~output.uploadOK) =>
                  output.err = ErrUploadCustomResources /\ output.rdSvcAlias = <<>>
            /\ (uploaded /\ output.uploadOK) =>
                  output.err = NoErr /\ output.rdSvcAlias = input.alias

\* The upload of a valid alias v.d fails.
C31_Witness ==
    /\ Checked("rd")
    /\ input.alias = <<"v", ".", "d">>
    /\ input.Domain = mockDomain
    /\ ~output.uploadOK
    /\ output.calls = <<"ServiceDiscoveryEndpoint", "Version", UploadCall>>
    /\ output.err = ErrUploadCustomResources
    /\ output.rdSvcAlias = <<>>

\* The error of a failed LastUpdatedAt: the message names the workload
\* (mockWkld) and wraps the cause.
ErrLastUpdatedAt == <<"get the last updated deployment time", SomeError>>

\* LastUpdatedAt was asked and gave no time.
LastUpdatedAtFailed ==
    /\ Count(calls, "LastUpdatedAt") > 0
    /\ lastUpdatedAt = NoTime

\* C32: with a force update requested, a failed LastUpdatedAt ends the call
\* with the error that names the workload and wraps the cause, and
\* ForceUpdateService is not called; the error has no other origin.
C32_LastUpdatedAtFailure ==
    /\ LastUpdatedAtFailed =>
         /\ opts.ForceNewUpdate
         /\ pc = "done"
         /\ err = ErrLastUpdatedAt
         /\ ForceUpdates = 0
         /\ spinner = "none"
         /\ calls[Len(calls)] = "LastUpdatedAt"
    /\ err = ErrLastUpdatedAt => LastUpdatedAtFailed
    /\ \A i \in 1..Len(history) :
         history[i].err = ErrLastUpdatedAt =>
            history[i].force /\ history[i].forced = 0

\* A forced deploy whose submission succeeded returned the error.
C32_Witness ==
    /\ Len(history) > 0
    /\ history[Len(history)].err = ErrLastUpdatedAt
    /\ history[Len(history)].force
    /\ history[Len(history)].submitted = "ok"
    /\ history[Len(history)].forced = 0

\* The position of the only call of name in log (0 when there is none).
PositionOf(log, name) ==
    IF Count(log, name) = 0 THEN 0
    ELSE CHOOSE i \in 1..Len(log) : log[i] = name

\* C33: the clock is read at most once in a DeployWorkload call, exactly
\* once when the configuration is submitted and then right before the
\* submission; the value read is the one compared with the time
\* LastUpdatedAt answers: ForceUpdateService is called only when that value
\* is strictly after it, so a last update not before the start of the call
\* never leads to a forced update.
C33_ClockReadOnce ==
    /\ Count(calls, "now") <= 1
    /\ Count(calls, "now") = Count(calls, "DeployService")
    /\ Count(calls, "DeployService") = 1 =>
         /\ PositionOf(calls, "now") + 1 = PositionOf(calls, "DeployService")
         /\ cmdRunAt \in Times
    /\ Count(calls, "now") = 0 => cmdRunAt = NoTime
    /\ (lastUpdatedAt # NoTime /\ lastUpdatedAt >= cmdRunAt) =>
         ForceUpdates = 0 /\ pc = "done" /\ err = NoErr
    /\ (lastUpdatedAt # NoTime /\ lastUpdatedAt < cmdRunAt) =>
         pc = "forceDeploy" \/ ForceUpdates = 1

\* The last update carries the very time the call started at: nothing is
\* forced and the call succeeds.
C33_Witness ==
    /\ pc = "done"
    /\ opts.ForceNewUpdate
    /\ submitted = "ok"
    /\ cmdRunAt = 1
    /\ lastUpdatedAt = 1
    /\ ForceUpdates = 0
    /\ err = NoErr
    /\ calls = <<"ServiceDiscoveryEndpoint", "now", "DeployService", "LastUpdatedAt">>

\* ------------------------------------------- service discovery groups
MaxPairs == 3

\* serviceDiscovery.String: "%s.%s.local:%s" of Service, App and Port.
sdString(sd) ==
    sd.Service \o <<".">> \o sd.App \o <<".", "l", "o", "c", "a", "l", ":">> \o sd.Port

\* Variant: a group is added whether or not the namespace is already there.
appendServiceDiscovery_alwaysNew(sds, sd, e) ==
    LET matched == [i \in 1..Len(sds) |->
                      IF sds[i].Namespace = sdString(sd)
                      THEN [sds[i] EXCEPT !.Environment = Append(@, e)]
                      ELSE sds[i]]
    IN  Append(matched, [Environment |-> <<e>>, Namespace |-> sdString(sd)])
\* appendServiceDiscovery: the environment joins every group whose namespace
\* is the record's string; a new group is added when there is none.
appendServiceDiscovery(sds, sd, e) ==
    LET exist == \E i \in 1..Len(sds) : sds[i].Namespace = sdString(sd)
        matched == [i \in 1..Len(sds) |->
                      IF sds[i].Namespace = sdString(sd)
                      THEN [sds[i] EXCEPT !.Environment = Append(@, e)]
                      ELSE sds[i]]
    IN  IF exist THEN matched
        ELSE Append(matched, [Environment |-> <<e>>, Namespace |-> sdString(sd)])

\* Discovery records: services and applications whose names hold a dot give
\* one string for different records; two ports.
DiscoveryRecords ==
    { [Service |-> <<"s">>, App |-> <<"b">>, Port |-> <<"8">>],
      [Service |-> <<"s">>, App |-> <<"b">>, Port |-> <<"9">>],
      [Service |-> <<"s", ".", "a">>, App |-> <<"b">>, Port |-> <<"8">>],
      [Service |-> <<"s">>, App |-> <<"a", ".", "b">>, Port |-> <<"8">>] }

DiscoveryEnvs == { <<"e">>, <<"f">> }

DiscoveryPairs == [sd : DiscoveryRecords, env : DiscoveryEnvs]

\* The pairs Describe will go through, and the empty list it starts from.
InitDiscovery ==
    /\ IdleDeployer
    /\ input \in [pairs : SeqsUpTo(DiscoveryPairs, MaxPairs)]
    /\ output = [sds |-> <<>>, n |-> 0]

\* One round of the loop of Describe over the environments.
AppendServiceDiscovery ==
    /\ output.n < Len(input.pairs)
    /\ LET p == input.pairs[output.n + 1] IN
         output' = [sds |-> appendServiceDiscovery(output.sds, p.sd, p.env),
                    n |-> output.n + 1]
    /\ UNCHANGED <<input, deployVars>>

NextDiscovery == AppendServiceDiscovery

SpecDiscovery == InitDiscovery /\ [][NextDiscovery]_vars

\* The environments of the first n pairs whose record gives the string ns,
\* in the order of the pairs.
RECURSIVE EnvsOf(_, _, _)
EnvsOf(pairs, n, ns) ==
    IF n = 0 THEN <<>>
    ELSE IF sdString(pairs[n].sd) = ns
         THEN Append(EnvsOf(pairs, n - 1, ns), pairs[n].env)
         ELSE EnvsOf(pairs, n - 1, ns)

\* The first pair whose record gives the string ns.
FirstPairOf(pairs, ns) ==
    CHOOSE k \in 1..Len(pairs) :
        /\ sdString(pairs[k].sd) = ns
        /\ \A j \in 1..(k - 1) : sdString(pairs[j].sd) # ns

\* C35: folding appendServiceDiscovery from the empty list over a sequence
\* of (record, environment) pairs gives groups with pairwise distinct
\* namespaces; the group of a namespace holds, in input order, exactly the
\* environments of the pairs processed so far whose record gives that string
\* (so every processed pair is in one group and no other), each processed
\* pair has its group, and the groups stand in the order their namespaces
\* first occurred.
C35_DiscoveryGroups ==
    LET sds == output.sds
        n == output.n
        pairs == input.pairs
    IN  /\ \A i, j \in 1..Len(sds) : i # j => sds[i].Namespace # sds[j].Namespace
        /\ \A i \in 1..Len(sds) :
              /\ sds[i].Environment = EnvsOf(pairs, n, sds[i].Namespace)
              /\ sds[i].Environment # <<>>
        /\ \A k \in 1..n : \E i \in 1..Len(sds) : sds[i].Namespace = sdString(pairs[k].sd)
        /\ \A i, j \in 1..Len(sds) :
              i < j => FirstPairOf(pairs, sds[i].Namespace) < FirstPairOf(pairs, sds[j].Namespace)

\* Two different records with one string share a group with both
\* environments, after another namespace came first.
C35_Witness ==
    /\ output.n = 3
    /\ input.pairs[2].sd # input.pairs[3].sd
    /\ Len(output.sds) = 2
    /\ output.sds[1].Environment = <<<<"f">>>>
    /\ output.sds[2].Namespace = <<"s", ".", "a", ".", "b", ".", "l", "o", "c", "a", "l", ":", "8">>
    /\ output.sds[2].Environment = << <<"e">>, <<"f">> >>

\* ------------------------------------------------------ UploadArtifacts
\* The three steps of UploadArtifacts, each given the manifest m
\* ([buildRequired, envFile]), whether the region of the environment has a
\* known partition, and the answers r of the collaborators. A step gives the
\* calls it made and its error.
uploadContainerImage(m, r) ==
    IF ~m.buildRequired THEN [calls |-> <<>>, err |-> NoErr]
    ELSE [calls |-> <<"BuildAndPush">>,
          err |-> IF r.buildOK THEN NoErr ELSE <<"build and push image", SomeError>>]

pushEnvFile(m, regionKnown, r) ==
    IF ~m.envFile THEN [calls |-> <<>>, err |-> NoErr]
    ELSE IF ~r.readOK THEN
        [calls |-> <<"ReadFile">>, err |-> <<"read env file", SomeError>>]
    ELSE IF r.putEnv = "error" THEN
        [calls |-> <<"ReadFile", "Upload env file">>,
         err |-> <<"put env file artifact to bucket", SomeError>>]
    ELSE IF r.putEnv = "badURL" THEN
        [calls |-> <<"ReadFile", "Upload env file">>,
         err |-> <<"parse s3 url", "cannot parse S3 URL into bucket name and key">>]
    ELSE IF ~regionKnown THEN
        [calls |-> <<"ReadFile", "Upload env file">>,
         err |-> <<"find the partition for region">>]
    ELSE [calls |-> <<"ReadFile", "Upload env file">>, err |-> NoErr]

pushAddonsTemplate(r) ==
    CASE r.template = "notfound" -> [calls |-> <<"Template">>, err |-> NoErr]
      [] r.template = "error" ->
            [calls |-> <<"Template">>, err |-> <<"retrieve addons template", SomeError>>]
      [] OTHER ->
            [calls |-> <<"Template", "Upload addons">>,
             err |-> IF r.putAddonsOK THEN NoErr
                     ELSE <<"put addons artifact to bucket", SomeError>>]

\* Variant: a failed image build does not stop the call.
UploadArtifacts_goesOn(m, regionKnown, r) ==
    LET img == uploadContainerImage(m, r)
        envf == pushEnvFile(m, regionKnown, r)
        add == pushAddonsTemplate(r)
    IN  IF envf.err # NoErr THEN
            [err |-> envf.err, calls |-> img.calls \o envf.calls, out |-> <<>>]
        ELSE IF add.err # NoErr THEN
            [err |-> add.err, calls |-> img.calls \o envf.calls \o add.calls, out |-> <<>>]
        ELSE
            [err |-> NoErr, calls |-> img.calls \o envf.calls \o add.calls,
             out |-> [ImageDigest |-> m.buildRequired /\ r.buildOK,
                      EnvFileARN |-> m.envFile,
                      AddonsURL |-> r.template = "ok"]]
\* workloadDeployer.UploadArtifacts: the image, the env file, the add-ons
\* template; the first error ends the call. out tells which of the three
\* results are set.
UploadArtifacts(m, regionKnown, r) ==
    LET img == uploadContainerImage(m, r)
        envf == pushEnvFile(m, regionKnown, r)
        add == pushAddonsTemplate(r)
    IN  IF img.err # NoErr THEN
            [err |-> img.err, calls |-> img.calls, out |-> <<>>]
        ELSE IF envf.err # NoErr THEN
            [err |-> envf.err, calls |-> img.calls \o envf.calls, out |-> <<>>]
        ELSE IF add.err # NoErr THEN
            [err |-> add.err, calls |-> img.calls \o envf.calls \o add.calls, out |-> <<>>]
        ELSE
            [err |-> NoErr, calls |-> img.calls \o envf.calls \o add.calls,
             out |-> [ImageDigest |-> m.buildRequired,
                      EnvFileARN |-> m.envFile,
                      AddonsURL |-> r.template = "ok"]]

\* One row of the table: the manifest, the region and what the mocks answer.
InitArtifacts ==
    /\ IdleDeployer
    /\ input \in [mft : [buildRequired : BOOLEAN, envFile : BOOLEAN],
                  regionKnown : BOOLEAN,
                  answers : [buildOK : BOOLEAN, readOK : BOOLEAN,
                             putEnv : {"ok", "badURL", "error"},
                             template : {"ok", "notfound", "error"},
                             putAddonsOK : BOOLEAN]]
    /\ output = <<>>

CallUploadArtifacts ==
    /\ output = <<>>
    /\ output' = UploadArtifacts(input.mft, input.regionKnown, input.answers)
    /\ UNCHANGED <<input, deployVars>>

NextArtifacts == CallUploadArtifacts

SpecArtifacts == InitArtifacts /\ [][NextArtifacts]_vars

\* The collaborator calls of the three steps, in their order.
ArtifactCallOrder ==
    <<"BuildAndPush", "ReadFile", "Upload env file", "Template", "Upload addons">>

ImageErrors == { <<"build and push image", SomeError>> }

EnvFileErrors ==
    { <<"read env file", SomeError>>,
      <<"put env file artifact to bucket", SomeError>>,
      <<"parse s3 url", "cannot parse S3 URL into bucket name and key">>,
      <<"find the partition for region">> }

AddonsErrors ==
    { <<"retrieve addons template", SomeError>>,
      <<"put addons artifact to bucket", SomeError>> }

\* C36: UploadArtifacts calls its collaborators in the order image build
\* and push, env file reading and upload, add-ons template and upload, each
\* at most once; the image is built only when a build is required and the
\* env file read only when one is declared; an error of the image step
\* leaves the env file and the add-ons untouched, an error of the env file
\* step leaves the add-ons untouched, every failing answer ends the call
\* with the error of its step, and without an error the add-ons template is
\* always asked for.
C36_UploadArtifactsOrder ==
    output # <<>> =>
        LET made(name) == Count(output.calls, name) > 0
            a == input.answers
        IN  /\ \A i \in 1..Len(output.calls) :
                  \E k \in 1..Len(ArtifactCallOrder) : output.calls[i] = ArtifactCallOrder[k]
            /\ \A i, j \in 1..Len(output.calls) :
                  i < j => \E k, l \in 1..Len(ArtifactCallOrder) :
                             /\ k < l
                             /\ output.calls[i] = ArtifactCallOrder[k]
                             /\ output.calls[j] = ArtifactCallOrder[l]
            /\ made("BuildAndPush") = input.mft.buildRequired
            /\ made("ReadFile") => input.mft.envFile
            /\ (input.mft.buildRequired /\ ~a.buildOK) =>
                  output.err \in ImageErrors /\ output.calls = <<"BuildAndPush">>
            /\ output.err \in ImageErrors => ~a.buildOK
            /\ output.err \in EnvFileErrors =>
                  /\ input.mft.envFile
                  /\ ~made("Template") /\ ~made("Upload addons")
                  /\ output.calls[Len(output.calls)] \in {"ReadFile", "Upload env file"}
            /\ (made("ReadFile") /\ ~a.readOK) =>
                  output.err = <<"read env file", SomeError>> /\ ~made("Upload env file")
            /\ (made("Upload env file") /\ (a.putEnv # "ok" \/ ~input.regionKnown)) =>
                  output.err \in EnvFileErrors
            /\ output.err \in AddonsErrors =>
                  /\ made("Template")
                  /\ input.mft.envFile => made("Upload env file")
            /\ (made("Template") /\ a.template = "error") =>
                  output.err = <<"retrieve addons template", SomeError>> /\ ~made("Upload addons")
            /\ (made("Upload addons") /\ ~a.putAddonsOK) =>
                  output.err = <<"put addons artifact to bucket", SomeError>>
            /\ output.err # NoErr => output.out = <<>>
            /\ output.err = NoErr =>
                  /\ made("Template")
                  /\ input.mft.envFile = made("Upload env file")
                  /\ made("Upload addons") = (a.template = "ok")
                  /\ output.out # <<>>

\* A build is required and an env file declared; the image is pushed, the
\* env file cannot be read, and the add-ons template is not asked for.
C36_Witness ==
    /\ output # <<>>
    /\ input.mft.buildRequired
    /\ input.mft.envFile
    /\ input.answers.template = "ok"
    /\ output.calls = <<"BuildAndPush", "ReadFile">>
    /\ output.err = <<"read env file", SomeError>>

\* C37 as stated: validateTopicsExist accepts a subscription only when a
\* topic with that same service and that same topic name is deployed; topics
\* whose joined name merely coincides do not validate it.
C37_Original ==
    (Checked("topics") /\ output.err = NoErr)
    => \A i \in 1..Len(input.subs) :
          \E j \in 1..Len(input.topics) :
             /\ input.topics[j].Service = input.subs[i].Service
             /\ input.topics[j].Name = input.subs[i].Name

\* ------------------------------------------- LBWebServiceDescriber.URI
SchemeHTTPS == <<"h", "t", "t", "p", "s", ":", "/", "/">>
SchemeHTTP == <<"h", "t", "t", "p", ":", "/", "/">>

\* A map entry is [has, v]; reading a missing key gives the empty string.
Lookup(entry) == IF entry.has THEN entry.v ELSE <<>>

\* LBWebServiceURI.String
uriString(uri) ==
    IF uri.Path = <<>> THEN SchemeHTTPS \o uri.DNSName
    ELSE IF uri.Path = <<"/">> THEN SchemeHTTP \o uri.DNSName
    ELSE SchemeHTTP \o uri.DNSName \o <<"/">> \o uri.Path

\* LBWebServiceDescriber.URI for the service svc, given the outputs of the
\* environment stack, the parameters of the service stack and whether the
\* describer, EnvOutputs and Params answered.
describeURI(svc, envOutputs, svcParams, initOK, outputsOK, paramsOK) ==
    IF ~initOK THEN [uri |-> <<>>, err |-> <<SomeError>>]
    ELSE IF ~outputsOK THEN
        [uri |-> <<>>, err |-> <<"get output for environment", SomeError>>]
    ELSE IF ~paramsOK THEN
        [uri |-> <<>>, err |-> <<"get parameters for service", SomeError>>]
    ELSE IF envOutputs.EnvironmentSubdomain.has THEN
        [uri |-> uriString([DNSName |-> svc \o <<".">> \o Lookup(envOutputs.EnvironmentSubdomain),
                            Path |-> <<>>]),
         err |-> NoErr]
    ELSE
        [uri |-> uriString([DNSName |-> Lookup(envOutputs.PublicLoadBalancerDNSName),
                            Path |-> Lookup(svcParams.RulePath)]),
         err |-> NoErr]

\* Map entries: the key is missing, or holds one of the values.
Entries(values) == {[has |-> FALSE, v |-> <<>>]} \cup [has : {TRUE}, v : values]

\* The stacks of an environment and of the service in it.
InitURI ==
    /\ IdleDeployer
    /\ input \in [svc : {<<"v">>},
                  envOutputs : [PublicLoadBalancerDNSName : Entries({<<>>, <<"l">>}),
                                EnvironmentSubdomain : Entries({<<>>, <<"d">>})],
                  svcParams : [RulePath : Entries({<<>>, <<"/">>, <<"p">>, <<"/", "p">>})]]
    /\ output = <<>>

URI(initOK, outputsOK, paramsOK) ==
    /\ output = <<>>
    /\ output' = describeURI(input.svc, input.envOutputs, input.svcParams,
                             initOK, outputsOK, paramsOK)
    /\ UNCHANGED <<input, deployVars>>

NextURI ==
    \E initOK \in BOOLEAN, outputsOK \in BOOLEAN, paramsOK \in BOOLEAN :
        URI(initOK, outputsOK, paramsOK)

SpecURI == InitURI /\ [][NextURI]_vars

\* s starts with the characters of p.
StartsWith(s, p) == Len(s) >= Len(p) /\ SubSeq(s, 1, Len(p)) = p

\* C38 as stated: the URI starts with https:// only if the outputs of the
\* environment hold the EnvironmentSubdomain key; without that key it is
\* http:// followed by the DNS name of the public load balancer, whatever
\* the rule path of the service.
C38_Original ==
    (output # <<>> /\ output.err = NoErr)
    => /\ StartsWith(output.uri, SchemeHTTPS) => input.envOutputs.EnvironmentSubdomain.has
       /\ ~input.envOutputs.EnvironmentSubdomain.has =>
            StartsWith(output.uri,
                       SchemeHTTP \o Lookup(input.envOutputs.PublicLoadBalancerDNSName))

\* The ListenerCertificate resources of a rendered template.
ListenerCertificates(t) ==
    { k \in 1..Len(t.resources) : t.resources[k].n = "HTTPSImportCertificate" }

\* C39: with n >= 1 imported certificates the first ARN is the certificate
\* of the HTTPS listener and every ARN at a later position p has exactly one
\* ListenerCertificate resource, HTTPSImportCertificate<p>, carrying it: n-1
\* such resources, with distinct names, none for the first ARN; with no
\* imported certificate the listener refers to the managed HTTPSCert and no
\* ListenerCertificate is rendered.
C39_ImportedCertificatesOnce ==
    output # <<>> =>
        LET certs == input.opts.ImportCertARNs
            lcs == ListenerCertificates(output)
        IN  /\ Cardinality(lcs) = (IF certs = <<>> THEN 0 ELSE Len(certs) - 1)
            /\ certs = <<>> => output.listenerCert = "!Ref HTTPSCert"
            /\ certs # <<>> => output.listenerCert = certs[1]
            /\ \A p \in 2..Len(certs) :
                  Cardinality({ k \in lcs : output.resources[k].i = p }) = 1
            /\ \A k \in lcs :
                  /\ output.resources[k].i \in 2..Len(certs)
                  /\ output.resources[k].arn = certs[output.resources[k].i]
            /\ \A k, l \in lcs : k # l => output.resources[k].i # output.resources[l].i

\* Three imported certificates: the first on the listener, the other two as
\* HTTPSImportCertificate2 and HTTPSImportCertificate3.
C39_Witness ==
    /\ output # <<>>
    /\ Len(input.opts.ImportCertARNs) = 3
    /\ input.opts.ImportCertARNs[1] # input.opts.ImportCertARNs[2]
    /\ output.listenerCert = input.opts.ImportCertARNs[1]
    /\ { output.resources[k].i : k \in ListenerCertificates(output) } = {2, 3}

\* ------------------------------------------------- IsStackNotExistsErr
MaxChain == 3

\* strings.Contains over sequences of words.
Contains(s, sub) ==
    \E i \in 0..(Len(s) - Len(sub)) : SubSeq(s, i + 1, i + Len(sub)) = sub

DoesNotExist == <<"does", "not", "exist">>

\* Variant: the code of the AWS error is not looked at.
stackNotExists_anyCode(e) ==
    /\ e.aws
    /\ Contains(e.msg, DoesNotExist)
\* The three tests IsStackNotExistsErr makes on one error: it is an
\* awserr.Error, its code is ValidationError, its message contains
\* "does not exist".
stackNotExists(e) ==
    /\ e.aws
    /\ e.code = "ValidationError"
    /\ Contains(e.msg, DoesNotExist)

\* Errors: AWS errors and others, with a code and a message.
ErrorMessages ==
    { <<>>,
      DoesNotExist,
      <<"stack", "x", "does", "not", "exist", "yet">>,
      <<"does", "not", "quite", "exist">> }

Errors == [aws : BOOLEAN, code : {"ValidationError", "AccessDenied"}, msg : ErrorMessages]

\* An error is given as its chain: the error itself, then what errors.Unwrap
\* gives, and so on; nil is the empty chain.  The call starts on the error.
InitErr ==
    /\ IdleDeployer
    /\ input \in [chain : SeqsUpTo(Errors, MaxChain)]
    /\ output = [err |-> input.chain, done |-> FALSE, result |-> FALSE, calls |-> 0]

\* One call of IsStackNotExistsErr on output.err: it answers, or calls
\* itself on errors.Unwrap(err).
IsStackNotExistsErr ==
    /\ ~output.done
    /\ IF output.err = <<>>
       THEN output' = [output EXCEPT !.done = TRUE, !.result = FALSE,
                                     !.calls = @ + 1]
       ELSE IF stackNotExists(Head(output.err))
       THEN output' = [output EXCEPT !.done = TRUE, !.result = TRUE,
                                     !.calls = @ + 1]
       ELSE output' = [output EXCEPT !.err = Tail(@), !.calls = @ + 1]
    /\ UNCHANGED <<input, deployVars>>

NextErr == IsStackNotExistsErr

\* A call that was made runs.
SpecErr == InitErr /\ [][NextErr]_vars /\ WF_vars(NextErr)

\* Some error of the chain is an AWS error with the code ValidationError and
\* a message containing "does not exist".
SomeStackNotExists(chain) ==
    \E i \in 1..Len(chain) :
        /\ chain[i].aws
        /\ chain[i].code = "ValidationError"
        /\ Contains(chain[i].msg, DoesNotExist)

\* C40: IsStackNotExistsErr ends on every finite chain, after at most one
\* call per error of the chain and one for nil, each call going on with a
\* shorter chain; its answer is true exactly when some error of the unwrap
\* chain is an AWS error with code ValidationError whose message contains
\* "does not exist", and false for nil.
C40_IsStackNotExistsErr ==
    /\ [](output.calls + Len(output.err) <= Len(input.chain) + 1)
    /\ [](output.done => output.result = SomeStackNotExists(input.chain))
    /\ []((output.done /\ input.chain = <<>>) => ~output.result /\ output.calls = 1)
    /\ <>output.done

\* The third error of a chain is the first to pass the three tests: an
\* error with the message but another code and one that is no AWS error
\* come before it.
C40_Witness ==
    /\ output.done
    /\ output.result
    /\ Len(input.chain) = 3
    /\ output.calls = 3
    /\ input.chain[1].aws /\ input.chain[1].code = "AccessDenied"
    /\ input.chain[1].msg = DoesNotExist
    /\ ~input.chain[2].aws /\ input.chain[2].code = "ValidationError"
    /\ input.chain[2].msg = DoesNotExist

====
